---- MODULE Spec2Model ----
(***************************************************************************)
(* Analogical Insight Extractor: the staging area, the duplicate scan, the *)
(* insight-generation run and the Firestore vault of the modular App       *)
(* (src/OutputSection.tsx, src/unnamed/part_001, src/unnamed/part_002,     *)
(* src/AnswerExtractor.tsx).                                               *)
(*                                                                         *)
(* Text is a sequence of tokens.  A token is a word the code's regular     *)
(* expressions look for ("Question:", "Correct Answer:", "Explanation:"),  *)
(* its lower-case form, a letter, a space or a line break.                 *)
(***************************************************************************)
EXTENDS Integers, Sequences, FiniteSets, TLC

VARIABLES
    inputText,      \* App: the staging text
    result,         \* App: <<>> for null, <<extraction>> otherwise
    status,         \* App: ProcessingStatus
    error,          \* App: "null" or the message
    pendingBatch,   \* App: <<>> for null, <<batch>> otherwise (checked, answered: history)
    isApiKeySet,    \* App: the polled copy of checkApiKey()
    view,           \* App: 'generator' | 'vault'
    showSettings,   \* App: the settings drawer is open
    vvItems,        \* VaultView: items
    vvLoading,      \* VaultView: loading
    search,         \* VaultView: the search filter
    startDate,      \* VaultView: the From filter, <<>> for '' or <<day>>
    endDate,        \* VaultView: the To filter, <<>> for '' or <<day>>
    scraper,        \* AnswerExtractor: its state
    drawer,         \* SettingsDrawer: geminiApiKey and config
    console,        \* the messages written to the console
    localKey,       \* localStorage 'gemini_api_key' (<<>> when absent)
    storedConfig,   \* localStorage 'vault_firebase_config': <<>> or <<blob>>
    tz,             \* the offset of local time from UTC
    envKey,         \* import.meta.env.VITE_API_KEY of the build (<<>> when unset)
    vault,          \* the Firestore collection: document id -> document
    now,            \* the clock read by new Date()
    runs,           \* the scans / processing runs in flight
    lastAlert,      \* the last window.alert message ("" when none)
    lastOp,         \* history: the handler or callback that ran last
    storedInput,    \* localStorage 'analogical_insight_input': <<>> or <<text>>
    updates         \* index.tsx App: the state updates queued for the next render

appVars   == <<result, status, error, pendingBatch>>
keyVars   == <<isApiKeySet, localKey>>
viewVars  == <<view, showSettings, vvItems, vvLoading, search, startDate, endDate>>
envVars   == <<storedConfig, now, tz, envKey>>
sideVars  == <<scraper, drawer, console>>
vars      == <<inputText, result, status, error, pendingBatch, isApiKeySet, view,
               showSettings, vvItems, vvLoading, search, startDate, endDate, scraper,
               drawer, console, localKey, storedConfig, tz, envKey,
               vault, now, runs, lastAlert, lastOp, storedInput, updates>>

----------------------------------------------------------------------------
(* Bounds of the model *)

\* the number of scans / processing runs that may be in flight together
MaxRuns == 2
\* the last instant of the clock
MaxClock == 1
\* the staged questions up to which the whole-App specification pushes
MaxStaged == 2
\* the calls of cleanAndExtractAnswers one scraper may await together
MaxExtracts == 2
\* the clock of the vault specification: instants 0..MaxVaultClock
MaxVaultClock == 3
\* the instants of one day: the clock counts half days
DayLen == 2

\* the staging limit of handlePushToEngine, handleInitialScan and the UI
StagingLimit == 6

----------------------------------------------------------------------------
(* Text *)

SP == " "
NL == "\n"
QM == "Question:"
CAM == "Correct Answer:"
EXM == "Explanation:"

IsSpace(c) == c \in {SP, NL}

\* String.prototype.toLowerCase, token by token
LowerTok(c) ==
    CASE c = "Question:"       -> "question:"
      [] c = "Correct Answer:" -> "correct answer:"
      [] c = "Explanation:"    -> "explanation:"
      [] c = "A"               -> "a"
      [] c = "B"               -> "b"
      [] OTHER                 -> c

toLowerCase(s) == [i \in 1..Len(s) |-> LowerTok(s[i])]

RECURSIVE TrimStart(_)
TrimStart(s) ==
    IF s # <<>> /\ IsSpace(Head(s)) THEN TrimStart(Tail(s)) ELSE s

RECURSIVE TrimEnd(_)
TrimEnd(s) ==
    IF s # <<>> /\ IsSpace(s[Len(s)]) THEN TrimEnd(SubSeq(s, 1, Len(s) - 1)) ELSE s

\* String.prototype.trim
trim(s) == TrimEnd(TrimStart(s))

\* (s.match(/Question: /g) || []).length
CountQuestionSp(s) ==
    Cardinality({i \in 1..(Len(s) - 1) : s[i] = QM /\ s[i + 1] = SP})

\* (s.match(/Question:/gi) || []).length
CountQuestionCI(s) ==
    Cardinality({i \in 1..Len(s) : LowerTok(s[i]) = "question:"})

\* c.includes("Question:")
includesQuestion(c) == \E i \in 1..Len(c) : c[i] = QM

\* The end of the white-space run that starts at i (i - 1 when s[i] is no space)
RECURSIVE SpaceRunEnd(_, _)
SpaceRunEnd(s, i) ==
    IF i <= Len(s) /\ IsSpace(s[i]) THEN SpaceRunEnd(s, i + 1) ELSE i - 1

\* The last line break of s[i..j] (0 when there is none)
LastNL(s, i, j) ==
    LET nls == {k \in i..j : s[k] = NL}
    IN  IF nls = {} THEN 0 ELSE CHOOSE k \in nls : \A m \in nls : m <= k

\* s.split(/\n\s*\n/): the leftmost match starts at the first line break that
\* a later line break of the same white-space run follows; \s* is greedy, so
\* the match ends at the last line break of the run.
RECURSIVE SplitFrom(_, _, _)
SplitFrom(s, start, i) ==
    IF i > Len(s) THEN <<SubSeq(s, start, Len(s))>>
    ELSE IF s[i] = NL /\ LastNL(s, i, SpaceRunEnd(s, i)) > i
         THEN LET e == LastNL(s, i, SpaceRunEnd(s, i))
              IN  <<SubSeq(s, start, i - 1)>> \o SplitFrom(s, e + 1, e + 1)
         ELSE SplitFrom(s, start, i + 1)

splitBlankLines(s) == SplitFrom(s, 1, 1)

\* Array.prototype.filter
RECURSIVE SelectIdx(_, _, _)
SelectIdx(s, keep, i) ==
    IF i > Len(s) THEN <<>>
    ELSE (IF i \in keep THEN <<s[i]>> ELSE <<>>) \o SelectIdx(s, keep, i + 1)

Range(s) == {s[k] : k \in 1..Len(s)}

\* Array.prototype.slice(0, n)
sliceTo(s, n) == SubSeq(s, 1, IF Len(s) < n THEN Len(s) ELSE n)

----------------------------------------------------------------------------
(* The questions the answer scraper can hand to the staging area: what the  *)
(* AI API extracted, any strings.                                           *)

Q(id, text, answer, explanation) ==
    [id |-> id, text |-> text, correctAnswer |-> answer, explanation |-> explanation]

ExtractedQuestions ==
    { Q("1", <<"a">>, <<"b">>, <<"a">>),
      \* the same question in capitals
      Q("2", <<"A">>, <<"b">>, <<"a">>),
      \* the extractor kept the "Question: " label of the source text
      Q("3", <<QM, SP, "a">>, <<"b">>, <<"a">>) }

\* `Question: ${q.text}\nCorrect Answer: ${q.correctAnswer}\nExplanation: ${q.explanation}`
formatted(q) ==
    <<QM, SP>> \o q.text \o <<NL, CAM, SP>> \o q.correctAnswer
               \o <<NL, EXM, SP>> \o q.explanation

\* derived state: stagedCount, isStagingFull
stagedCount == CountQuestionSp(inputText)
isStagingFull == stagedCount >= StagingLimit

\* what a hand edit of the staging textarea can leave there
BlankLine == <<NL, NL>>

RECURSIVE Repeat(_, _)
Repeat(entry, n) ==
    IF n = 0 THEN <<>>
    ELSE IF n = 1 THEN entry ELSE entry \o BlankLine \o Repeat(entry, n - 1)

Entry1 == formatted(Q("1", <<"a">>, <<"b">>, <<"a">>))
\* the question of Entry1 in capitals
Entry1Caps == formatted(Q("2", <<"A">>, <<"b">>, <<"a">>))
Entry4 == formatted(Q("4", <<"b">>, <<"b">>, <<"a">>))

\* three staged entries, the first two the same question
ThreeStaged == Entry1 \o BlankLine \o Entry1Caps \o BlankLine \o Entry4

\* seven questions pasted by hand
SevenPasted == Repeat(<<QM, SP, "b">>, StagingLimit + 1)

\* what the staging textarea can hold after a hand edit
HandTexts == { <<>>, <<"a">>, ThreeStaged }

\* the same with a paste that exceeds the staging limit
PastedTexts == { <<>>, SevenPasted }

----------------------------------------------------------------------------
(* The vault: src/unnamed/part_001 (firebase.ts) *)

\* getQuestionHash: SHA-256 of text.trim().toLowerCase(), in hex.  The digest
\* is taken as collision free: it is written as its tagged preimage.
getQuestionHash(text) == <<"sha256">> \o toLowerCase(trim(text))

\* the object saveToVault hands to setDoc
VaultDoc(hash, domain, rule, at) ==
    [masteredAt |-> at, domain |-> domain, foundationalRule |-> rule, hash |-> hash]

\* a write that keeps the document already stored under the id
setDocKeepFirst(store, id, data) ==
    [k \in (DOMAIN store) \cup {id} |-> IF k \in DOMAIN store THEN store[k] ELSE data]

\* setDoc(doc(db, COLLECTION_NAME, id), data): creates or overwrites
setDoc(store, id, data) ==
    [k \in (DOMAIN store) \cup {id} |-> IF k = id THEN data ELSE store[k]]

\* docSnap.exists()
docExists(store, id) == id \in DOMAIN store

\* the fields of the config object the drawer edits
ConfigFields == <<"projectId", "apiKey", "authDomain", "appId">>

\* JSON.stringify of an object of strings: its members in order
JSONstringify(object, fields) == [i \in 1..Len(fields) |-> <<fields[i], object[fields[i]]>>]

\* JSON.parse of such a text
JSONparse(text) ==
    [f \in {text[i][1] : i \in 1..Len(text)} |->
        (CHOOSE pair \in {text[i] : i \in 1..Len(text)} : pair[1] = f)[2]]

\* the config object with a projectId
ConfigOf(projectId) ==
    [projectId |-> projectId, apiKey |-> <<>>, authDomain |-> <<>>, appId |-> <<>>]

\* the object built from process.env: no variable is set in the browser
EnvConfig ==
    [apiKey |-> <<>>, authDomain |-> <<>>, projectId |-> <<>>, storageBucket |-> <<>>,
     messagingSenderId |-> <<>>, appId |-> <<>>]

\* getFirebaseConfig
getFirebaseConfig == IF storedConfig # <<>> THEN JSONparse(storedConfig[1]) ELSE EnvConfig

\* the stored Firebase config has a projectId
dbConfigured == getFirebaseConfig.projectId # <<>>

\* what localStorage holds for a configured / an unconfigured store
StoredFor(configured) ==
    IF configured THEN <<JSONstringify(ConfigOf(<<"p">>), ConfigFields)>> ELSE <<>>

\* getDb: throws "Firebase not configured" without a projectId.  The config
\* changes only with a reload, so that the cached dbInstance never outlives it.
getDbThrows == ~dbConfigured

----------------------------------------------------------------------------
(* The AI API: src/OutputSection.tsx (geminiService.ts) *)

\* a Gemini API key
StoredKey == <<"k">>

\* what localStorage 'gemini_api_key' can hold: nothing, or a key
Keys == {<<>>, StoredKey}

\* getApiKey
getApiKey == IF localKey # <<>> THEN localKey ELSE envKey

\* checkApiKey
checkApiKey == (localKey # <<>>) \/ (envKey # <<>>)

\* the foundationalRule of the j-th returned block
RuleOf(j) == IF j = 1 THEN <<"A", "b">> ELSE <<"b">>

Extraction(domain, hasBlocks, n) ==
    [domain |-> domain, hasBlocks |-> hasBlocks, blocks |-> [j \in 1..n |-> RuleOf(j)]]

\* What JSON.parse can return for a batch of n questions: a block for each
\* question, one block fewer, or the empty object of an empty response
\* body ('{}').
AIResponses(n) ==
    { Extraction(<<"A", "Z">>, TRUE, n), Extraction(<<"A", "Z">>, TRUE, n - 1),
      Extraction(<<"undefined">>, FALSE, 0) }

\* (extraction.blocks || []).length
blockCount(x) == IF x.hasBlocks THEN Len(x.blocks) ELSE 0

----------------------------------------------------------------------------
(* The scans and processing runs in flight.  A run is the activation of    *)
(* handleInitialScan or executeProcessing between two awaits:              *)
(*   "check"  awaiting the hashes and the checkDuplicate calls             *)
(*   "ai"     awaiting processInsights                                     *)
(*   "save"   awaiting saveToVault for block i                             *)
(* keySeen is the isApiKeySet of the render whose closure the run holds,   *)
(* stamp the new Date() of the pending saveToVault call.  History: checked *)
(* are the hashes checkDuplicate was called for, lost tells that a         *)
(* saveToVault of the run wrote nothing.                                   *)

\* AnswerExtractor after mounting; pending (history) counts the calls of
\* cleanAndExtractAnswers this instance awaits
ScraperInit ==
    [input |-> <<>>, pdf |-> FALSE, loading |-> FALSE, results |-> <<>>, pushedIds |-> {},
     error |-> "null", pending |-> 0]

\* SettingsDrawer after mounting: its useState initialisers
DrawerInit ==
    [geminiApiKey |-> localKey,
     config |-> IF storedConfig # <<>> THEN JSONparse(storedConfig[1]) ELSE ConfigOf(<<>>)]

FreeRun ==
    [pc |-> "free", questions |-> <<>>, hashes |-> <<>>, keySeen |-> FALSE,
     extraction |-> <<>>, i |-> 0, stamp |-> 0, checked |-> {}, lost |-> FALSE]

RunIds == 1..MaxRuns

FreeSlots == {r \in RunIds : runs[r].pc = "free"}

\* the slot a new run takes
NewSlot == CHOOSE r \in FreeSlots : \A o \in FreeSlots : r <= o

Min(a, b) == IF a < b THEN a ELSE b

\* the number of saveToVault calls of the loop: the blocks that have a hash
saveCount(x, hashes) == Min(blockCount(x), Len(hashes))

\* the generator panels (AnswerExtractor, InputSection) are on screen
PanelsShown == view = "generator" /\ result = <<>>

loading == status = "LOADING"

\* pendingBatch?.duplicateIndices.length || 0
duplicateCount == IF pendingBatch = <<>> THEN 0 ELSE Len(pendingBatch[1].duplicateIndices)

hasDuplicates == duplicateCount > 0

----------------------------------------------------------------------------
(* App: src/OutputSection.tsx 303-534 *)

\* localStorage.getItem(STORAGE_KEY_INPUT) || ''
restored(entry) == IF entry = <<>> THEN <<>> ELSE entry[1]

\* the effect on [inputText], run after the render that changed inputText and
\* before the next event is handled: localStorage.setItem(STORAGE_KEY_INPUT, text)
persisted(text) == <<text>>

\* the staging textarea's onChange: setInputText
EditStaging(t) ==
    /\ PanelsShown
    /\ t # inputText
    /\ inputText' = t
    /\ storedInput' = persisted(t)
    /\ lastOp' = "edit"
    /\ UNCHANGED <<appVars, keyVars, viewVars, envVars, updates, sideVars, vault, runs, lastAlert>>

\* handlePushToEngine
handlePushToEngine(q) ==
    IF CountQuestionSp(inputText) >= StagingLimit
    THEN /\ lastAlert' = "Generator limit reached!"
         /\ UNCHANGED <<inputText, storedInput>>
    ELSE /\ inputText' = (IF inputText # <<>> THEN inputText \o BlankLine \o formatted(q)
                                             ELSE formatted(q))
         /\ storedInput' = persisted(inputText')
         /\ UNCHANGED lastAlert

\* a call of handlePushToEngine
PushToEngine(q) ==
    /\ handlePushToEngine(q)
    /\ lastOp' = (IF CountQuestionSp(inputText) >= StagingLimit THEN "pushDenied"
                  ELSE "push")
    /\ UNCHANGED <<appVars, keyVars, viewVars, envVars, updates, sideVars, vault, runs>>

\* q.id || q.text
idOf(q) == IF q.id # "" THEN <<q.id>> ELSE q.text

\* AnswerExtractor.handlePushClick on a listed result, behind the button's
\* disabled={isPushed || isStagingFull}
handlePushClick(q) ==
    /\ PanelsShown
    /\ q \in Range(scraper.results)
    /\ idOf(q) \notin scraper.pushedIds
    /\ ~isStagingFull
    /\ handlePushToEngine(q)
    /\ scraper' = [scraper EXCEPT !.pushedIds = @ \cup {idOf(q)}]
    /\ lastOp' = "push"
    /\ UNCHANGED <<appVars, keyVars, viewVars, envVars, updates, drawer, console, vault, runs>>

\* a reset that leaves the stored entry alone
keptOnReset(text) == persisted(text)

\* STORAGE_KEY_INPUT after handleReset: removeItem in the handler; when the
\* reset changed inputText, the effect on [inputText] then stores ''
cleared(text) == IF text # <<>> THEN persisted(<<>>) ELSE <<>>

\* a reset that also empties the collection
handleResetWiping ==
    /\ view = "generator"
    /\ inputText' = <<>>
    /\ storedInput' = cleared(inputText)
    /\ result' = <<>>
    /\ status' = "IDLE"
    /\ error' = "null"
    /\ pendingBatch' = <<>>
    /\ vault' = <<>>
    /\ lastOp' = "reset"
    /\ UNCHANGED <<keyVars, viewVars, envVars, updates, sideVars, runs, lastAlert>>

\* a reset that drops the runs in flight
handleResetCancelling ==
    /\ view = "generator"
    /\ inputText' = <<>>
    /\ storedInput' = cleared(inputText)
    /\ result' = <<>>
    /\ status' = "IDLE"
    /\ error' = "null"
    /\ pendingBatch' = <<>>
    /\ runs' = [r \in RunIds |-> FreeRun]
    /\ lastOp' = "reset"
    /\ UNCHANGED <<keyVars, viewVars, envVars, updates, sideVars, vault, lastAlert>>

\* handleReset: Clear All of the staging panel, RESET of the result panel
handleReset ==
    /\ view = "generator"
    /\ inputText' = <<>>
    /\ storedInput' = cleared(inputText)
    /\ result' = <<>>
    /\ status' = "IDLE"
    /\ error' = "null"
    /\ pendingBatch' = <<>>
    /\ lastOp' = "reset"
    /\ UNCHANGED <<keyVars, viewVars, envVars, updates, sideVars, vault, runs, lastAlert>>

\* the 2 s interval: setIsApiKeySet(checkApiKey())
PollApiKey ==
    /\ isApiKeySet # checkApiKey
    /\ isApiKeySet' = checkApiKey
    /\ lastOp' = "poll"
    /\ UNCHANGED <<inputText, storedInput, appVars, localKey, viewVars, envVars, updates, sideVars, vault, runs, lastAlert>>

\* a processing run that does not look at the size of its batch
executeProcessingAnyBatch(r, batch, hashes, keySeen, checked) ==
    IF ~keySeen
    THEN /\ error' = "AI Logic Engine is offline. Please configure your API key."
         /\ status' = "ERROR"
         /\ runs' = [runs EXCEPT ![r] = FreeRun]
         /\ UNCHANGED pendingBatch
    ELSE /\ status' = "LOADING"
         /\ error' = "null"
         /\ pendingBatch' = <<>>
         /\ runs' = [runs EXCEPT ![r] =
                [pc |-> "ai", questions |-> batch, hashes |-> hashes, keySeen |-> keySeen,
                 extraction |-> <<>>, i |-> 0, stamp |-> 0, checked |-> checked,
                 lost |-> FALSE]]

\* executeProcessing(batch, hashes) up to its first await, run in slot r.
\* keySeen is the isApiKeySet of the closure that calls it.
executeProcessing(r, batch, hashes, keySeen, checked) ==
    IF Len(batch) = 0
    THEN /\ error' = "No new questions to process."
         /\ status' = "IDLE"
         /\ pendingBatch' = <<>>
         /\ runs' = [runs EXCEPT ![r] = FreeRun]
    ELSE IF ~keySeen
    THEN /\ error' = "AI Logic Engine is offline. Please configure your API key."
         /\ status' = "ERROR"
         /\ runs' = [runs EXCEPT ![r] = FreeRun]
         /\ UNCHANGED pendingBatch
    ELSE IF getApiKey = <<>>
    THEN \* processInsights throws before any request: the catch of line 381
         /\ error' = "No API key configured. Please add your Gemini API key in Settings."
         /\ status' = "ERROR"
         /\ pendingBatch' = <<>>
         /\ runs' = [runs EXCEPT ![r] = FreeRun]
    ELSE /\ status' = "LOADING"
         /\ error' = "null"
         /\ pendingBatch' = <<>>
         /\ runs' = [runs EXCEPT ![r] =
                [pc |-> "ai", questions |-> batch, hashes |-> hashes, keySeen |-> keySeen,
                 extraction |-> <<>>, i |-> 0, stamp |-> 0, checked |-> checked,
                 lost |-> FALSE]]

\* the chunks of a text that hold a question, all of them
rawQuestionsUncut(text) ==
    LET chunks == splitBlankLines(trim(text))
    IN  SelectIdx(chunks, {k \in 1..Len(chunks) : includesQuestion(chunks[k])}, 1)

\* inputText.trim().split(/\n\s*\n/).filter(c => c.includes("Question:")).slice(0, 6)
rawQuestionsOf(text) ==
    LET chunks == splitBlankLines(trim(text))
    IN  sliceTo(SelectIdx(chunks, {k \in 1..Len(chunks) : includesQuestion(chunks[k])}, 1),
                StagingLimit)

\* a scan that goes to processing without looking the hashes up
handleInitialScanUnchecked ==
    /\ trim(inputText) # <<>>
    /\ FreeSlots # {}
    /\ LET rawQuestions == rawQuestionsOf(inputText)
       IN  executeProcessing(NewSlot, rawQuestions,
                             [k \in 1..Len(rawQuestions) |-> getQuestionHash(rawQuestions[k])],
                             isApiKeySet, {})
    /\ lastOp' = "analyze"
    /\ UNCHANGED <<inputText, storedInput, result, keyVars, viewVars, envVars, updates, sideVars, vault, lastAlert>>

\* handleInitialScan up to its first await
handleInitialScan ==
    /\ trim(inputText) # <<>>
    /\ FreeSlots # {}
    /\ LET rawQuestions == rawQuestionsOf(inputText)
       IN  IF Len(rawQuestions) = 0
           THEN \* the throw of line 398, caught at line 419
                /\ error' = "No valid questions detected. Ensure you push questions from the Scraper first."
                /\ status' = "ERROR"
                /\ UNCHANGED runs
           ELSE /\ status' = "LOADING"
                /\ error' = "null"
                /\ runs' = [runs EXCEPT ![NewSlot] =
                       [pc |-> "check", questions |-> rawQuestions,
                        hashes |-> [k \in 1..Len(rawQuestions) |->
                                        getQuestionHash(rawQuestions[k])],
                        keySeen |-> isApiKeySet, extraction |-> <<>>, i |-> 0,
                        stamp |-> 0, checked |-> {}, lost |-> FALSE]]
    /\ lastOp' = "analyze"
    /\ UNCHANGED <<inputText, storedInput, result, pendingBatch, keyVars, viewVars, envVars, updates, sideVars,
                   vault, lastAlert>>

\* the Analyze Batch button: shown without a duplicate prompt, enabled with
\* staged questions and no run loading
AnalyzeClick ==
    /\ PanelsShown /\ ~hasDuplicates /\ ~loading /\ stagedCount # 0
    /\ handleInitialScan

\* a lookup that never finds anything
checkDuplicateNever(h, rejected) == FALSE

\* a lookup that reports a duplicate when it cannot ask the store
checkDuplicateFailClosed(h, rejected) ==
    IF getDbThrows \/ rejected THEN TRUE ELSE docExists(vault, h)

\* checkDuplicate(h): false when getDb throws or getDoc rejects
checkDuplicate(h, rejected) ==
    IF getDbThrows \/ rejected THEN FALSE ELSE docExists(vault, h)

\* duplicates.map((d, i) => d ? i : -1).filter(i => i !== -1), positions from 1
RECURSIVE trueIndices(_, _)
trueIndices(flags, k) ==
    IF k > Len(flags) THEN <<>>
    ELSE (IF flags[k] THEN <<k>> ELSE <<>>) \o trueIndices(flags, k + 1)

\* handleInitialScan after the checks; failing are the positions whose getDoc
\* rejects
ScanChecked(r, failing) ==
    /\ runs[r].pc = "check"
    /\ LET run == runs[r]
           duplicates == [k \in 1..Len(run.hashes) |->
                              checkDuplicate(run.hashes[k], k \in failing)]
           duplicateIndices == trueIndices(duplicates, 1)
           \* history: every lookup of the scan was answered by the store
           answered == ~getDbThrows /\ failing = {}
       IN  IF Len(duplicateIndices) > 0
           THEN /\ pendingBatch' = <<[questions |-> run.questions, hashes |-> run.hashes,
                                      duplicateIndices |-> duplicateIndices,
                                      checked |-> Range(run.hashes),
                                      answered |-> answered]>>
                /\ status' = "IDLE"
                /\ runs' = [runs EXCEPT ![r] = FreeRun]
                /\ lastOp' = (IF answered THEN "prompt" ELSE "promptPartial")
                /\ UNCHANGED error
           ELSE /\ executeProcessing(r, run.questions, run.hashes, run.keySeen,
                                     Range(run.hashes))
                /\ lastOp' = (IF answered THEN "scanned" ELSE "scannedPartial")
    /\ UNCHANGED <<inputText, storedInput, result, keyVars, viewVars, envVars, updates, sideVars, vault, lastAlert>>

\* the duplicate prompt is on screen
PromptShown == PanelsShown /\ hasDuplicates /\ ~loading

\* a skip that filters the questions and passes the hashes on as they are
onSkipDuplicatesUnpaired ==
    /\ PromptShown
    /\ FreeSlots # {}
    /\ LET p == pendingBatch[1]
           keep == {k \in 1..Len(p.questions) : k \notin Range(p.duplicateIndices)}
       IN  executeProcessing(NewSlot, SelectIdx(p.questions, keep, 1), p.hashes, isApiKeySet,
                             p.checked)
    /\ lastOp' = "skip"
    /\ UNCHANGED <<inputText, storedInput, result, keyVars, viewVars, envVars, updates, sideVars, vault, lastAlert>>

\* onSkipDuplicates
onSkipDuplicates ==
    /\ PromptShown
    /\ FreeSlots # {}
    /\ LET p == pendingBatch[1]
           keep == {k \in 1..Len(p.questions) : k \notin Range(p.duplicateIndices)}
           keepH == {k \in 1..Len(p.hashes) : k \notin Range(p.duplicateIndices)}
       IN  executeProcessing(NewSlot, SelectIdx(p.questions, keep, 1),
                             SelectIdx(p.hashes, keepH, 1), isApiKeySet, p.checked)
    /\ lastOp' = "skip"
    /\ UNCHANGED <<inputText, storedInput, result, keyVars, viewVars, envVars, updates, sideVars, vault, lastAlert>>

\* onProcessAll
onProcessAll ==
    /\ PromptShown
    /\ FreeSlots # {}
    /\ LET p == pendingBatch[1]
       IN  executeProcessing(NewSlot, p.questions, p.hashes, isApiKeySet, p.checked)
    /\ lastOp' = "processAll"
    /\ UNCHANGED <<inputText, storedInput, result, keyVars, viewVars, envVars, updates, sideVars, vault, lastAlert>>

\* a save under an id of the store's choosing, as addDoc would do
saveToVaultAutoId(store, hash, domain, rule, at, rejected) ==
    IF getDbThrows \/ rejected THEN store
    ELSE setDoc(store, <<"auto", Cardinality(DOMAIN store)>>, VaultDoc(hash, domain, rule, at))

\* saveToVault(hash, domain, rule): the collection after the call.  Every
\* error (getDb throwing, setDoc rejecting) is swallowed by its catch.
saveToVault(store, hash, domain, rule, at, rejected) ==
    IF getDbThrows \/ rejected THEN store
    ELSE setDoc(store, hash, VaultDoc(hash, domain, rule, at))

\* the end of executeProcessing's try block: setResult, setStatus(SUCCESS)
\* The result replaces the generator panels: AnswerExtractor unmounts.
finishRun(r, x) ==
    /\ result' = <<x>>
    /\ status' = "SUCCESS"
    /\ runs' = [runs EXCEPT ![r] = FreeRun]
    /\ scraper' = ScraperInit

\* an element of blocks that is null
NullBlock == <<"null">>

\* a loop that a failed write ends
saveLoopStopping(r, x, i, lost) ==
    IF i > saveCount(x, runs[r].hashes) \/ lost
    THEN finishRun(r, x) /\ UNCHANGED console
    ELSE IF x.blocks[i] = NullBlock
    THEN /\ console' = console \cup {"Vault sync failed. Check Firebase config in Integration center."}
         /\ finishRun(r, x)
    ELSE /\ runs' = [runs EXCEPT ![r].pc = "save", ![r].extraction = <<x>>, ![r].i = i,
                                 ![r].stamp = now, ![r].lost = lost]
         /\ UNCHANGED <<result, status, scraper, console>>

\* the save loop of executeProcessing arriving at block i: the loop is over,
\* or reading blocks[i].foundationalRule throws into the catch of line 375,
\* or saveToVault is called
saveLoop(r, x, i, lost) ==
    IF i > saveCount(x, runs[r].hashes)
    THEN finishRun(r, x) /\ UNCHANGED console
    ELSE IF x.blocks[i] = NullBlock
    THEN /\ console' = console \cup {"Vault sync failed. Check Firebase config in Integration center."}
         /\ finishRun(r, x)
    ELSE /\ runs' = [runs EXCEPT ![r].pc = "save", ![r].extraction = <<x>>, ![r].i = i,
                                 ![r].stamp = now, ![r].lost = lost]
         /\ UNCHANGED <<result, status, scraper, console>>

\* what err.message can be when processInsights rejects: the parse error of
\* line 286, or a network error without a message
AIErrors == { "Invalid structure returned from AI. Try a smaller batch.", "" }

\* a catch that drops the error
processingFailedSilently(r, message) ==
    /\ runs' = [runs EXCEPT ![r] = FreeRun]
    /\ UNCHANGED <<error, status, result, vault>>

\* executeProcessing's outer catch
processingFailed(r, message) ==
    /\ error' = (IF message # "" THEN message
                 ELSE "Processing failed. Try a smaller batch.")
    /\ status' = "ERROR"
    /\ runs' = [runs EXCEPT ![r] = FreeRun]
    /\ UNCHANGED <<result, vault>>

\* processInsights rejects: the network fails, or the text is no JSON
AIFail(r, message) ==
    /\ runs[r].pc = "ai"
    /\ processingFailed(r, message)
    /\ lastOp' = "aiFail"
    /\ UNCHANGED <<inputText, storedInput, pendingBatch, keyVars, viewVars, envVars, updates, sideVars, lastAlert>>

\* processInsights resolves with extraction x: the save loop starts
AIReturn(r, x) ==
    /\ runs[r].pc = "ai"
    /\ saveLoop(r, x, 1, FALSE)
    /\ lastOp' = "aiReturn"
    /\ UNCHANGED <<inputText, storedInput, error, pendingBatch, keyVars, viewVars, envVars, updates, drawer,
                   vault, lastAlert>>

\* saveToVault for block i settles; the loop goes on or the run ends
SaveReturn(r, rejected) ==
    /\ runs[r].pc = "save"
    /\ LET run == runs[r]
           x == run.extraction[1]
       IN  /\ vault' = saveToVault(vault, run.hashes[run.i], x.domain, x.blocks[run.i],
                                   run.stamp, rejected)
           /\ saveLoop(r, x, run.i + 1, run.lost \/ getDbThrows \/ rejected)
    /\ lastOp' = (IF getDbThrows \/ rejected THEN "saveFailed" ELSE "saved")
    /\ UNCHANGED <<inputText, storedInput, error, pendingBatch, keyVars, viewVars, envVars, updates, drawer, lastAlert>>

----------------------------------------------------------------------------
(* AnswerExtractor: src/AnswerExtractor.tsx *)

\* what changes besides the scraper's state in none of its own handlers
scraperFrame ==
    UNCHANGED <<inputText, storedInput, appVars, keyVars, viewVars, envVars, updates, drawer, console, vault,
                runs, lastAlert>>

\* the scraper textarea's onChange, shown while no PDF is staged
SetInput(text) ==
    /\ PanelsShown /\ ~scraper.pdf
    /\ text # scraper.input
    /\ scraper' = [scraper EXCEPT !.input = text]
    /\ lastOp' = "input"
    /\ scraperFrame

\* handleFileChange with a PDF that is read, a PDF that cannot be read, a
\* file that is no PDF
handleFileChange(file) ==
    /\ PanelsShown /\ ~scraper.pdf
    /\ scraper' =
          CASE file = "pdf" ->
                 [scraper EXCEPT !.pdf = TRUE, !.input = <<>>, !.error = "null",
                                 !.loading = FALSE]
            [] file = "unreadable" ->
                 [scraper EXCEPT !.error = "Failed to read PDF file.", !.loading = FALSE]
            [] OTHER ->
                 [scraper EXCEPT !.error = "Please upload a valid PDF document."]
    /\ lastOp' = "file"
    /\ scraperFrame

\* clearStagedFile
clearStagedFile ==
    /\ PanelsShown /\ scraper.pdf
    /\ scraper' = [scraper EXCEPT !.pdf = FALSE]
    /\ lastOp' = "fileCleared"
    /\ scraperFrame

\* Clear List: setResults([])
ClearList ==
    /\ PanelsShown /\ Len(scraper.results) > 0
    /\ scraper' = [scraper EXCEPT !.results = <<>>]
    /\ lastOp' = "listCleared"
    /\ scraperFrame

\* a scraper that starts extracting without looking at the key
handleExtractAnyway ==
    /\ scraper' = [scraper EXCEPT !.loading = TRUE, !.error = "null", !.pushedIds = {},
                                  !.pending = @ + 1]
    /\ lastOp' = "extract"

\* handleExtract up to its await: the early return; or the start of the
\* attempt, which cleanAndExtractAnswers ends at once when it finds no key
handleExtract ==
    IF (trim(scraper.input) = <<>> /\ ~scraper.pdf) \/ ~isApiKeySet
    THEN /\ lastOp' = "extractDenied"
         /\ UNCHANGED scraper
    ELSE IF getApiKey = <<>>
    THEN /\ scraper' = [scraper EXCEPT
                 !.loading = FALSE, !.pushedIds = {},
                 !.error = "No API key configured. Please add your Gemini API key in Settings."]
         /\ lastOp' = "extractNoKey"
    ELSE /\ scraper' = [scraper EXCEPT !.loading = TRUE, !.error = "null", !.pushedIds = {},
                                       !.pending = @ + 1]
         /\ lastOp' = "extract"

\* a call of handleExtract
Extract ==
    /\ PanelsShown
    /\ scraper.pending < MaxExtracts
    /\ handleExtract
    /\ scraperFrame

\* the Scrape Correct Answers button, behind
\* disabled={loading || (!input.trim() && !pdfData) || !isApiKeySet}
ExtractClick ==
    /\ ~scraper.loading
    /\ trim(scraper.input) # <<>> \/ scraper.pdf
    /\ isApiKeySet
    /\ Extract

\* cleanAndExtractAnswers resolves with the parsed list
ExtractReturn(questions) ==
    /\ scraper.pending > 0
    /\ scraper' = [scraper EXCEPT !.results = questions, !.loading = FALSE, !.pending = @ - 1]
    /\ lastOp' = "extracted"
    /\ scraperFrame

\* a catch of the scraper that only ends the loading state
extractFailedSilently(message) ==
    scraper' = [scraper EXCEPT !.loading = FALSE, !.pending = @ - 1]

\* handleExtract's catch and finally
extractFailed(message) ==
    scraper' = [scraper EXCEPT
        !.error = (IF message # "" THEN message ELSE "Extraction failed."),
        !.loading = FALSE, !.pending = @ - 1]

\* cleanAndExtractAnswers rejects: the network fails, or the text is no JSON
ExtractFail(message) ==
    /\ scraper.pending > 0
    /\ extractFailed(message)
    /\ lastOp' = "extractFailed"
    /\ scraperFrame

\* what err.message can be when cleanAndExtractAnswers rejects
ExtractErrors == { "Unexpected token", "" }

----------------------------------------------------------------------------
(* Views: the GENERATOR / VAULT switch, VaultView (src/unnamed/part_000),  *)
(* the settings drawer                                                     *)

\* the documents of the collection
docsOf(store) == {store[k] : k \in DOMAIN store}

\* a listing of the documents ordered by masteredAt, latest first
IsLatestFirst(items, store) ==
    /\ Len(items) = Cardinality(docsOf(store))
    /\ Range(items) = docsOf(store)
    /\ \A a, b \in 1..Len(items) : a < b => items[a].masteredAt >= items[b].masteredAt

RECURSIVE Listings(_)
Listings(docs) ==
    IF docs = {} THEN {<<>>}
    ELSE UNION {{<<d>> \o rest : rest \in Listings(docs \ {d})} : d \in docs}

\* a fetch without the orderBy clause
fetchVaultUnordered(rejected) ==
    IF getDbThrows \/ rejected THEN {<<>>} ELSE Listings(docsOf(vault))

\* fetchVault: the query's documents, or [] when getDb throws or getDocs rejects
fetchVault(rejected) ==
    IF getDbThrows \/ rejected THEN {<<>>}
    ELSE {items \in Listings(docsOf(vault)) : IsLatestFirst(items, vault)}

\* setView; VaultView mounts with its initial state and starts its load
SwitchView(v) ==
    /\ v # view
    /\ view' = v
    /\ vvItems' = <<>>
    /\ vvLoading' = (v = "vault")
    /\ search' = <<>>
    /\ startDate' = <<>>
    /\ endDate' = <<>>
    /\ scraper' = ScraperInit
    /\ lastOp' = "view"
    /\ UNCHANGED <<inputText, storedInput, appVars, keyVars, showSettings, envVars, updates, drawer, console,
                   vault, runs, lastAlert>>

\* VaultView's load effect after fetchVault settles
VaultLoaded(rejected) ==
    /\ view = "vault" /\ vvLoading
    /\ vvItems' \in fetchVault(rejected)
    /\ vvLoading' = FALSE
    /\ lastOp' = "vaultLoaded"
    /\ UNCHANGED <<inputText, storedInput, appVars, keyVars, view, showSettings, search, startDate,
                   endDate, envVars, updates, sideVars, vault, runs, lastAlert>>

\* the search box's onChange; clearFilters sets ''
SetSearch(text) ==
    /\ view = "vault" /\ ~vvLoading
    /\ text # search
    /\ search' = text
    /\ lastOp' = "filter"
    /\ UNCHANGED <<inputText, storedInput, appVars, keyVars, view, showSettings, vvItems, vvLoading,
                   startDate, endDate, envVars, updates, sideVars, vault, runs, lastAlert>>

\* String.prototype.includes
includes(s, sub) ==
    \E i \in 1..(Len(s) + 1) : i + Len(sub) - 1 <= Len(s) /\ SubSeq(s, i, i + Len(sub) - 1) = sub

\* new Date("YYYY-MM-DD").getTime(): a date-only string is read as midnight UTC
DateParse(day) == day * DayLen

\* the local wall clock at instant t, in a zone tz half days ahead of UTC
LocalTime(t) == t + tz

\* Date.prototype.setHours(0, 0, 0, 0): midnight of the local day of t
setHoursStart(t) == (LocalTime(t) \div DayLen) * DayLen - tz

\* Date.prototype.setHours(23, 59, 59, 999): the last instant of the local day of t
setHoursEnd(t) == setHoursStart(t) + DayLen - 1

\* the predicate of items.filter; a bound of 0 is falsy and filters nothing
matchesFilter(item) ==
    LET matchesSearch ==
            \/ includes(toLowerCase(item.foundationalRule), toLowerCase(search))
            \/ includes(toLowerCase(item.domain), toLowerCase(search))
        itemDate == item.masteredAt
        matchesStartDate ==
            IF startDate # <<>> /\ setHoursStart(DateParse(startDate[1])) # 0
            THEN itemDate >= setHoursStart(DateParse(startDate[1])) ELSE TRUE
        matchesEndDate ==
            IF endDate # <<>> /\ setHoursEnd(DateParse(endDate[1])) # 0
            THEN itemDate <= setHoursEnd(DateParse(endDate[1])) ELSE TRUE
    IN  matchesSearch /\ matchesStartDate /\ matchesEndDate

\* filteredItems
filteredItems == SelectIdx(vvItems, {k \in 1..Len(vvItems) : matchesFilter(vvItems[k])}, 1)

\* the From input's onChange: setStartDate
SetStartDate(date) ==
    /\ view = "vault" /\ ~vvLoading
    /\ date # startDate
    /\ startDate' = date
    /\ lastOp' = "filter"
    /\ UNCHANGED <<inputText, storedInput, appVars, keyVars, view, showSettings, vvItems, vvLoading,
                   search, endDate, envVars, updates, sideVars, vault, runs, lastAlert>>

\* the To input's onChange: setEndDate
SetEndDate(date) ==
    /\ view = "vault" /\ ~vvLoading
    /\ date # endDate
    /\ endDate' = date
    /\ lastOp' = "filter"
    /\ UNCHANGED <<inputText, storedInput, appVars, keyVars, view, showSettings, vvItems, vvLoading,
                   search, startDate, envVars, updates, sideVars, vault, runs, lastAlert>>

\* clearFilters, behind the Clear All Filters button
clearFilters ==
    /\ view = "vault" /\ ~vvLoading
    /\ search # <<>> \/ startDate # <<>> \/ endDate # <<>>
    /\ search' = <<>>
    /\ startDate' = <<>>
    /\ endDate' = <<>>
    /\ lastOp' = "filtersCleared"
    /\ UNCHANGED <<inputText, storedInput, appVars, keyVars, view, showSettings, vvItems, vvLoading,
                   envVars, updates, sideVars, vault, runs, lastAlert>>

\* the Integration Center button; onClose of the drawer
SetShowSettings(open) ==
    /\ open # showSettings
    /\ showSettings' = open
    /\ lastOp' = (IF open THEN "settingsOpen" ELSE "settingsClose")
    /\ UNCHANGED <<inputText, storedInput, appVars, keyVars, view, vvItems, vvLoading, search,
                   startDate, endDate, envVars, updates, sideVars, vault, runs, lastAlert>>

\* the key input's onChange of the drawer: setGeminiApiKey
SetGeminiApiKey(text) ==
    /\ showSettings
    /\ text # drawer.geminiApiKey
    /\ drawer' = [drawer EXCEPT !.geminiApiKey = text]
    /\ lastOp' = "keyTyped"
    /\ UNCHANGED <<inputText, storedInput, appVars, keyVars, viewVars, envVars, updates, scraper, console, vault,
                   runs, lastAlert>>

\* a config input's onChange: setConfig({ ...config, [key]: value })
SetConfig(key, value) ==
    /\ showSettings
    /\ value # drawer.config[key]
    /\ drawer' = [drawer EXCEPT !.config[key] = value]
    /\ lastOp' = "configTyped"
    /\ UNCHANGED <<inputText, storedInput, appVars, keyVars, viewVars, envVars, updates, scraper, console, vault,
                   runs, lastAlert>>

\* a save that stores the key as it was typed
savedKeyUntrimmed(text) == IF trim(text) # <<>> THEN text ELSE <<>>

\* 'gemini_api_key' after save: setItem(trim) or removeItem
savedKey(text) == IF trim(text) # <<>> THEN trim(text) ELSE <<>>

\* the collection after the saveToVault calls of the runs in order have reached
\* the store
RECURSIVE landed(_, _)
landed(store, order) ==
    IF order = <<>> THEN store
    ELSE LET run == runs[Head(order)]
             x == run.extraction[1]
         IN  landed(saveToVault(store, run.hashes[run.i], x.domain, x.blocks[run.i],
                                run.stamp, FALSE),
                    Tail(order))

\* save of the drawer: the two localStorage items, the alert, and
\* window.location.reload(), after which App, the scraper and the drawer mount
\* anew from localStorage.  The old page's runs are gone; of the writes they
\* were awaiting any may still reach the store.
save ==
    /\ showSettings
    /\ localKey' = savedKey(drawer.geminiApiKey)
    /\ storedConfig' = <<JSONstringify(drawer.config, ConfigFields)>>
    /\ lastAlert' = "Configuration saved. Refreshing application state..."
    /\ UNCHANGED <<now, tz, envKey, console, updates>>
    /\ inputText' = restored(storedInput)
    /\ storedInput' = persisted(restored(storedInput))
    /\ result' = <<>>
    /\ status' = "IDLE"
    /\ error' = "null"
    /\ pendingBatch' = <<>>
    /\ isApiKeySet' = checkApiKey'
    /\ view' = "generator"
    /\ showSettings' = FALSE
    /\ vvItems' = <<>>
    /\ vvLoading' = FALSE
    /\ search' = <<>>
    /\ startDate' = <<>>
    /\ endDate' = <<>>
    /\ scraper' = ScraperInit
    /\ drawer' = DrawerInit'
    /\ runs' = [r \in RunIds |-> FreeRun]
    /\ vault' \in {landed(vault, order) :
                      order \in UNION {Listings(S) : S \in SUBSET {r \in RunIds : runs[r].pc = "save"}}}
    /\ lastOp' = "settingsSaved"

\* the user reloads the page: App, the scraper and the drawer mount anew from
\* localStorage, and App's effect on [inputText] runs on mount.  The old
\* page's runs are gone; of the writes they were awaiting any may still reach
\* the store.
Reload ==
    /\ inputText' = restored(storedInput)
    /\ storedInput' = persisted(restored(storedInput))
    /\ result' = <<>>
    /\ status' = "IDLE"
    /\ error' = "null"
    /\ pendingBatch' = <<>>
    /\ isApiKeySet' = checkApiKey
    /\ view' = "generator"
    /\ showSettings' = FALSE
    /\ vvItems' = <<>>
    /\ vvLoading' = FALSE
    /\ search' = <<>>
    /\ startDate' = <<>>
    /\ endDate' = <<>>
    /\ scraper' = ScraperInit
    /\ drawer' = DrawerInit
    /\ runs' = [r \in RunIds |-> FreeRun]
    /\ vault' \in {landed(vault, order) :
                      order \in UNION {Listings(S) : S \in SUBSET {r \in RunIds : runs[r].pc = "save"}}}
    /\ lastOp' = "reload"
    /\ UNCHANGED <<localKey, envVars, updates, console, lastAlert>>

----------------------------------------------------------------------------
(* The single-file App: src/index.tsx.  Its staging text is inputText, its  *)
(* scraper's state is scraper; updates holds the setInputText updaters that *)
(* the scraper's buttons have dispatched and the next render applies.       *)

\* the number of updaters that wait for a render, at most
MaxPending == 2

\* currentStagedCount: (inputText.match(/Question:/gi) || []).length
currentStagedCount == CountQuestionCI(inputText)

\* the updater of handlePushToEngine, applied to the latest staging text prev
atomicPush(prev, q) ==
    IF CountQuestionCI(prev) >= StagingLimit THEN prev
    ELSE IF trim(prev) # <<>> THEN trim(prev) \o BlankLine \o formatted(q)
    ELSE formatted(q)

\* the staging text after the first k queued updaters have been applied in
\* the order of their dispatch
RECURSIVE applied(_, _, _)
applied(prev, queue, k) ==
    IF k = 0 THEN prev ELSE atomicPush(applied(prev, queue, k - 1), queue[k])

\* what changes in none of the handlers of the single-file App
monoFrame ==
    UNCHANGED <<storedInput, appVars, keyVars, viewVars, envVars, drawer, console, vault,
                runs, lastAlert>>

\* the scraper textarea's onChange
MonoSetInput(text) ==
    /\ PanelsShown /\ updates = <<>> /\ ~scraper.pdf
    /\ text # scraper.input
    /\ scraper' = [scraper EXCEPT !.input = text]
    /\ lastOp' = "input"
    /\ UNCHANGED <<inputText, updates>>
    /\ monoFrame

\* handleExtract up to its await, behind the button's disabled={loading}
MonoExtract ==
    /\ PanelsShown /\ updates = <<>> /\ ~scraper.loading
    /\ scraper.pending < MaxExtracts
    /\ IF envKey = <<>> \/ (trim(scraper.input) = <<>> /\ ~scraper.pdf)
       THEN /\ lastOp' = "extractDenied"
            /\ UNCHANGED scraper
       ELSE /\ scraper' = [scraper EXCEPT !.loading = TRUE, !.pending = @ + 1]
            /\ lastOp' = "extract"
    /\ UNCHANGED <<inputText, updates>>
    /\ monoFrame

\* cleanAndExtractAnswers resolves: setResults, setPushedIds(new Set())
MonoExtractReturn(questions) ==
    /\ updates = <<>> /\ scraper.pending > 0
    /\ scraper' = [scraper EXCEPT !.results = questions, !.pushedIds = {}, !.loading = FALSE,
                                  !.pending = @ - 1]
    /\ lastOp' = "extracted"
    /\ UNCHANGED <<inputText, updates>>
    /\ monoFrame

\* cleanAndExtractAnswers rejects: the empty catch, then finally
MonoExtractFail ==
    /\ updates = <<>> /\ scraper.pending > 0
    /\ scraper' = [scraper EXCEPT !.loading = FALSE, !.pending = @ - 1]
    /\ lastOp' = "extractFailed"
    /\ UNCHANGED <<inputText, updates>>
    /\ monoFrame

\* the onClick of a listed result's button, enabled by the last render:
\* onPush(q) and setPushedIds queue their updaters
MonoPushClick(q) ==
    /\ PanelsShown
    /\ q \in Range(scraper.results)
    /\ idOf(q) \notin scraper.pushedIds
    /\ currentStagedCount < StagingLimit
    /\ Len(updates) < MaxPending
    /\ updates' = Append(updates, q)
    /\ lastOp' = "dispatch"
    /\ UNCHANGED <<inputText, scraper>>
    /\ monoFrame

\* the render that applies the queued updaters in order
MonoRender ==
    /\ updates # <<>>
    /\ inputText' = applied(inputText, updates, Len(updates))
    /\ scraper' = [scraper EXCEPT !.pushedIds = @ \cup {idOf(updates[k]) : k \in 1..Len(updates)}]
    /\ updates' = <<>>
    /\ lastOp' = "render"
    /\ monoFrame

\* Clear All: setInputText('')
MonoClearAll ==
    /\ PanelsShown /\ updates = <<>>
    /\ inputText # <<>>
    /\ inputText' = <<>>
    /\ lastOp' = "clearAll"
    /\ UNCHANGED <<scraper, updates>>
    /\ monoFrame

----------------------------------------------------------------------------
(* The environment *)

\* time passes, up to a bound
TickTo(limit) ==
    /\ now < limit
    /\ now' = now + 1
    /\ lastOp' = "tick"
    /\ UNCHANGED <<inputText, storedInput, appVars, keyVars, viewVars, storedConfig, tz, envKey, updates,
                   sideVars, vault, runs, lastAlert>>

Tick == TickTo(MaxClock)

\* another tab of the origin stores or removes 'gemini_api_key'
StorageKeyChange(k) ==
    /\ k # localKey
    /\ localKey' = k
    /\ lastOp' = "storage"
    /\ UNCHANGED <<inputText, storedInput, appVars, isApiKeySet, viewVars, envVars, updates, sideVars, vault, runs, lastAlert>>

\* a saveToVault of another session of the app on the same Firestore project
RemoteSave(text, domain, rule) ==
    /\ vault' = setDoc(vault, getQuestionHash(text),
                       VaultDoc(getQuestionHash(text), domain, rule, now))
    /\ vault' # vault
    /\ lastOp' = "remoteSave"
    /\ UNCHANGED <<inputText, storedInput, appVars, keyVars, viewVars, envVars, updates, sideVars, runs, lastAlert>>

----------------------------------------------------------------------------
(* Specifications *)

\* the state after App mounts: inputText from localStorage, the rest as the
\* useState initialisers give it
InitBuilt(texts, keys, configured, zones, envKeys) ==
    /\ inputText \in texts
    /\ result = <<>>
    /\ status = "IDLE"
    /\ error = "null"
    /\ pendingBatch = <<>>
    /\ localKey \in keys
    /\ envKey \in envKeys
    /\ isApiKeySet = checkApiKey
    /\ view = "generator"
    /\ showSettings = FALSE
    /\ vvItems = <<>>
    /\ vvLoading = FALSE
    /\ search = <<>>
    /\ startDate = <<>>
    /\ endDate = <<>>
    /\ storedConfig \in {StoredFor(c) : c \in configured}
    /\ tz \in zones
    /\ scraper = ScraperInit
    /\ drawer = DrawerInit
    /\ console = {}
    /\ vault = <<>>
    /\ now = 0
    /\ runs = [r \in RunIds |-> FreeRun]
    /\ lastAlert = ""
    /\ lastOp = "init"
    /\ storedInput = persisted(inputText)
    /\ updates = <<>>

\* the same for the static deployment, built without VITE_API_KEY
InitZoned(texts, keys, configured, zones) == InitBuilt(texts, keys, configured, zones, {<<>>})

\* the same in a browser whose local time is UTC
InitApp(texts, keys, configured) == InitZoned(texts, keys, configured, {0})

\* the generator: editing, the scan, the prompt, the processing run
Generator(texts) ==
    \/ \E t \in texts : EditStaging(t)
    \/ handleReset
    \/ AnalyzeClick
    \/ \E r \in RunIds : \E failing \in SUBSET (1..Len(runs[r].hashes)) : ScanChecked(r, failing)
    \/ onSkipDuplicates
    \/ onProcessAll
    \/ \E r \in RunIds : \E message \in AIErrors : AIFail(r, message)
    \/ \E r \in RunIds : \E x \in AIResponses(Len(runs[r].questions)) : AIReturn(r, x)
    \/ \E r \in RunIds : \E rejected \in BOOLEAN : SaveReturn(r, rejected)

\* the generator with a key stored and hand-edited staging texts
Init == InitApp(HandTexts, {StoredKey}, BOOLEAN)

Next == Generator(HandTexts)

Spec == Init /\ [][Next]_vars

\* pushes into the staging area
InitStaging == InitApp({<<>>, ThreeStaged}, {StoredKey}, {TRUE})

\* ExtractedQuestions as the list the scraper shows
ExtractedList ==
    << Q("1", <<"a">>, <<"b">>, <<"a">>), Q("2", <<"A">>, <<"b">>, <<"a">>),
       Q("3", <<QM, SP, "a">>, <<"b">>, <<"a">>) >>

NextStaging ==
    \/ \E text \in {<<"a">>} : SetInput(text)
    \/ ExtractClick
    \/ ExtractReturn(ExtractedList)
    \/ \E q \in ExtractedQuestions : handlePushClick(q)
    \/ \E q \in ExtractedQuestions : PushToEngine(q)
    \/ handleReset

SpecStaging == InitStaging /\ [][NextStaging]_vars

\* the generator over pasted staging texts
InitBatch == InitApp(PastedTexts, {StoredKey}, {TRUE})

NextBatch == Generator(PastedTexts)

SpecBatch == InitBatch /\ [][NextBatch]_vars

\* the staging texts of the smaller specifications
PairStaged == Entry1 \o BlankLine \o Entry4

PairTexts == { <<>>, PairStaged }

\* the generator next to another session that saves into the same collection
InitShared == InitApp(PairTexts, {StoredKey}, BOOLEAN)

NextShared ==
    \/ Generator(PairTexts)
    \/ \E text \in {Entry1, Entry4} : RemoteSave(text, <<"remote">>, RuleOf(2))
    \/ Tick

SpecShared == InitShared /\ [][NextShared]_vars

\* the generator while the stored API key comes and goes
InitKeys == InitApp(PairTexts, Keys, {TRUE})

NextKeys ==
    \/ Generator(PairTexts)
    \/ \E k \in Keys : StorageKeyChange(k)
    \/ PollApiKey

SpecKeys == InitKeys /\ [][NextKeys]_vars

\* the whole App: the generator, the scraper's pushes, the views, the drawer
SingleTexts == { <<>>, Entry1 }

SearchTexts == { <<>>, <<"B">> }

\* the scraper results pushed in the whole-App specification
PushedHere == { Q("1", <<"a">>, <<"b">>, <<"a">>) }

InitUI == InitApp(SingleTexts, {StoredKey}, {TRUE})

NextUI ==
    \/ Generator(SingleTexts)
    \/ \E text \in {<<"a">>} : SetInput(text)
    \/ ExtractClick
    \/ \E q \in PushedHere : ExtractReturn(<<q>>)
    \/ \E q \in PushedHere : stagedCount < MaxStaged /\ handlePushClick(q)
    \/ \E v \in {"generator", "vault"} : SwitchView(v)
    \/ \E rejected \in BOOLEAN : VaultLoaded(rejected)
    \/ \E text \in SearchTexts : SetSearch(text)
    \/ \E open \in BOOLEAN : SetShowSettings(open)

SpecUI == InitUI /\ [][NextUI]_vars

\* the scan of two staged entries: scraper results with the same question in
\* another case, with a trailing space, with another explanation
HashedQuestions ==
    { Q("h", text, <<"b">>, explanation) :
        text \in { <<"a">>, <<"A">>, <<"a", SP>>, <<"b">> },
        explanation \in { <<"a">>, <<"b">> } }

PairedTexts ==
    { formatted(q1) \o BlankLine \o formatted(q2) : q1 \in HashedQuestions, q2 \in HashedQuestions }

InitHash == InitApp(PairedTexts, {StoredKey}, {TRUE})

NextHash ==
    \/ AnalyzeClick
    \/ \E r \in RunIds : \E failing \in SUBSET (1..Len(runs[r].hashes)) : ScanChecked(r, failing)
    \/ \E r \in RunIds : \E message \in AIErrors : AIFail(r, message)
    \/ \E r \in RunIds : \E x \in AIResponses(Len(runs[r].questions)) : AIReturn(r, x)
    \/ \E r \in RunIds : \E rejected \in BOOLEAN : SaveReturn(r, rejected)

SpecHash == InitHash /\ [][NextHash]_vars

\* What JSON.parse can also return for a batch of n questions: blocks whose
\* last element is null
MalformedResponses(n) ==
    { [domain |-> <<"A", "Z">>, hasBlocks |-> TRUE,
       blocks |-> [j \in 1..n |-> IF j = n THEN NullBlock ELSE RuleOf(j)]] }

\* the generator with responses that make the save loop throw
InitLog == InitApp(PairTexts, {StoredKey}, BOOLEAN)

NextLog ==
    \/ Generator(PairTexts)
    \/ \E r \in RunIds : \E x \in MalformedResponses(Len(runs[r].questions)) : AIReturn(r, x)

SpecLog == InitLog /\ [][NextLog]_vars

\* the generator and the scraper while the stored API key comes and goes
InitCreds == InitApp(SingleTexts, Keys, {TRUE})

NextCreds ==
    \/ Generator(SingleTexts)
    \/ \E k \in Keys : StorageKeyChange(k)
    \/ PollApiKey
    \/ \E text \in {<<"a">>} : SetInput(text)
    \/ Extract
    \/ \E q \in PushedHere : ExtractReturn(<<q>>)
    \/ \E message \in ExtractErrors : ExtractFail(message)

SpecCreds == InitCreds /\ [][NextCreds]_vars

\* one batch that is never edited: the staging text is empty only after a
\* reset, and a reset leaves nothing to analyze
InitReset == InitApp({PairStaged, ThreeStaged}, {StoredKey}, BOOLEAN)

NextReset ==
    \/ handleReset
    \/ AnalyzeClick
    \/ \E r \in RunIds : \E failing \in SUBSET (1..Len(runs[r].hashes)) : ScanChecked(r, failing)
    \/ \E r \in RunIds : \E message \in AIErrors : AIFail(r, message)
    \/ \E r \in RunIds : \E x \in AIResponses(Len(runs[r].questions)) : AIReturn(r, x)
    \/ \E r \in RunIds : \E rejected \in BOOLEAN : SaveReturn(r, rejected)
    \/ Tick

SpecReset == InitReset /\ [][NextReset]_vars

\* the vault view over a collection that other sessions fill, in browsers
\* west of, at and east of UTC
TimeZones == {-1, 0, 1}

VaultSearches == { <<>>, <<"a", "B">> }

FilterDays == { <<>>, <<1>> }

InitVault == InitZoned({<<>>}, {StoredKey}, BOOLEAN, TimeZones)

NextVault ==
    \/ RemoteSave(Entry1, <<"A", "Z">>, RuleOf(1))
    \/ RemoteSave(Entry4, <<"remote">>, RuleOf(2))
    \/ TickTo(MaxVaultClock)
    \/ \E v \in {"generator", "vault"} : SwitchView(v)
    \/ \E rejected \in BOOLEAN : VaultLoaded(rejected)
    \/ \E text \in VaultSearches : SetSearch(text)
    \/ \E date \in FilterDays : SetStartDate(date)
    \/ \E date \in FilterDays : SetEndDate(date)
    \/ clearFilters

SpecVault == InitVault /\ [][NextVault]_vars

\* the settings drawer, in a build with and a build without VITE_API_KEY
KeyTexts == { <<>>, <<SP>>, StoredKey, <<SP>> \o StoredKey \o <<NL>> }

EnvKeys == { <<>>, <<"e">> }

ConfigTexts == { <<>>, <<"p">> }

InitSettings == InitBuilt(SingleTexts, Keys, BOOLEAN, {0}, EnvKeys)

NextSettings ==
    \/ \E t \in SingleTexts : EditStaging(t)
    \/ \E open \in BOOLEAN : SetShowSettings(open)
    \/ \E text \in KeyTexts : SetGeminiApiKey(text)
    \/ \E key \in {"projectId", "appId"} : \E value \in ConfigTexts : SetConfig(key, value)
    \/ save
    \/ \E k \in Keys : StorageKeyChange(k)
    \/ PollApiKey

SpecSettings == InitSettings /\ [][NextSettings]_vars

\* the scraper: typing, staging a file, extracting, listing, pushing, while the
\* stored API key comes and goes
InitScraper == InitApp({<<>>}, Keys, {TRUE})

\* the call of cleanAndExtractAnswers that handleExtract awaits settles
Settle ==
    \/ \E q \in PushedHere : ExtractReturn(<<q>>)
    \/ \E message \in ExtractErrors : ExtractFail(message)

NextScraper ==
    \/ \E text \in {<<>>, <<SP>>, <<"a">>} : SetInput(text)
    \/ \E file \in {"pdf", "unreadable", "text"} : handleFileChange(file)
    \/ clearStagedFile
    \/ ExtractClick
    \/ Settle
    \/ ClearList
    \/ \E q \in PushedHere : handlePushClick(q)
    \/ \E k \in Keys : StorageKeyChange(k)
    \/ PollApiKey

SpecScraper == InitScraper /\ [][NextScraper]_vars

\* the same, with every awaited request settling at last: the promise that
\* handleExtract awaits resolves or rejects, and its continuation is then run
LiveScraper == SpecScraper /\ WF_vars(Settle)

\* the scraper's list next to the generator: a plain question, one whose
\* text kept the "Question: " label, one whose explanation has two paragraphs
PushList ==
    << Q("1", <<"a">>, <<"b">>, <<"a">>),
       Q("3", <<QM, SP, "a">>, <<"b">>, <<"a">>),
       Q("5", <<"b">>, <<"b">>, <<"a", NL, NL, "a">>) >>

\* pushing from the scraper into the staging area and analyzing it, without
\* a vault
InitPush == InitApp({<<>>}, {StoredKey}, {FALSE})

NextPush ==
    \/ \E text \in {<<"a">>} : SetInput(text)
    \/ ExtractClick
    \/ ExtractReturn(PushList)
    \/ \E q \in Range(PushList) : stagedCount < MaxStaged /\ handlePushClick(q)
    \/ handleReset
    \/ AnalyzeClick
    \/ \E r \in RunIds : ScanChecked(r, {})
    \/ \E r \in RunIds : \E message \in AIErrors : AIFail(r, message)
    \/ \E r \in RunIds : \E x \in AIResponses(Len(runs[r].questions)) : AIReturn(r, x)
    \/ \E r \in RunIds : SaveReturn(r, FALSE)

SpecPush == InitPush /\ [][NextPush]_vars

\* the scraper's marks while the staging area is filled, edited and cleared
InitMarks == InitApp({<<>>}, {StoredKey}, {TRUE})

NextMarks ==
    \/ \E text \in {<<"a">>} : SetInput(text)
    \/ ExtractClick
    \/ ExtractReturn(PushList)
    \/ \E message \in ExtractErrors : ExtractFail(message)
    \/ ClearList
    \/ \E q \in Range(PushList) : stagedCount < MaxStaged /\ handlePushClick(q)
    \/ \E t \in {<<>>, <<"a">>} : EditStaging(t)
    \/ handleReset

SpecMarks == InitMarks /\ [][NextMarks]_vars

\* the generator with pushes and page reloads
InitPersist == InitApp(SingleTexts, {StoredKey}, {TRUE})

NextPersist ==
    \/ Generator(SingleTexts)
    \/ \E q \in PushedHere : stagedCount < MaxStaged /\ PushToEngine(q)
    \/ Reload

SpecPersist == InitPersist /\ [][NextPersist]_vars

\* the single-file App built with an API key: its scraper lists a plain
\* question and one whose text kept the "Question: " label
MonoList == << Q("1", <<"a">>, <<"b">>, <<"a">>), Q("3", <<QM, SP, "a">>, <<"b">>, <<"a">>) >>

InitMono == InitBuilt({<<>>}, {<<>>}, {FALSE}, {0}, {<<"e">>})

NextMono ==
    \/ \E text \in {<<"a">>} : MonoSetInput(text)
    \/ MonoExtract
    \/ MonoExtractReturn(MonoList)
    \/ MonoExtractFail
    \/ \E q \in Range(MonoList) : MonoPushClick(q)
    \/ MonoRender
    \/ MonoClearAll

SpecMono == InitMono /\ [][NextMono]_vars

----------------------------------------------------------------------------
(* Properties *)

\* C1 (SpecStaging): a call of handlePushToEngine never leaves more than six
\* occurrences of "Question: " in the staging text, and a call made while the
\* text holds six or more leaves the text unchanged.
C1_StagingCap ==
    [][lastOp' \in {"push", "pushDenied"} =>
          /\ CountQuestionSp(inputText') <= StagingLimit
          /\ (CountQuestionSp(inputText) >= StagingLimit => inputText' = inputText)]_vars

\* a push has taken the staging text over the limit
C1_OverCap == lastOp = "push" /\ CountQuestionSp(inputText) > StagingLimit

\* the runs whose insight request is in flight
Requesting == {r \in RunIds : runs[r].pc = "ai"}

\* C2 (SpecBatch): every insight request in flight carries at least one and at
\* most six questions, whatever the staging text holds.
C2_RequestSize ==
    \A r \in Requesting :
        Len(runs[r].questions) >= 1 /\ Len(runs[r].questions) <= StagingLimit

\* a request of six questions is in flight while the staging text holds seven
C2_CutToSix ==
    /\ \E r \in Requesting : Len(runs[r].questions) = StagingLimit
    /\ stagedCount > StagingLimit

\* C3 (Spec): once a document exists for a hash, no step changes its
\* masteredAt, domain or foundationalRule.
C3_WrittenOnce ==
    [][\A k \in DOMAIN vault :
          k \in DOMAIN vault' =>
              /\ vault'[k].masteredAt = vault[k].masteredAt
              /\ vault'[k].domain = vault[k].domain
              /\ vault'[k].foundationalRule = vault[k].foundationalRule]_vars

\* the block of the second of two staged entries with one hash has been saved
C3_SavedTwice ==
    /\ lastOp = "saved"
    /\ \E r \in RunIds :
          /\ runs[r].pc = "save" /\ runs[r].i = 3
          /\ runs[r].hashes[1] = runs[r].hashes[2]
          /\ vault[runs[r].hashes[1]].foundationalRule = RuleOf(2)

\* C4 (SpecUI): no step removes a hash from the vault, and the vault changes
\* only in the save step of a processing run.
C4_NeverShrinks ==
    [][/\ DOMAIN vault \subseteq DOMAIN vault'
       /\ (vault' # vault => lastOp' = "saved")]_vars

\* the vault view has loaded an item and the staging area was cleared since
C4_ItemsKept ==
    /\ DOMAIN vault # {}
    /\ Len(vvItems) > 0
    /\ inputText = <<>> /\ result = <<>>
    /\ lastOp \in {"filter", "settingsClose"}

\* the fields of a vault document
VaultFields == {"masteredAt", "domain", "foundationalRule", "hash"}

\* C5 (SpecShared): each document stored under key k has exactly the four
\* fields and the hash k, so no two documents have the same hash.
C5_KeyedByHash ==
    /\ \A k \in DOMAIN vault : DOMAIN vault[k] = VaultFields /\ vault[k].hash = k
    /\ \A k1, k2 \in DOMAIN vault : vault[k1].hash = vault[k2].hash => k1 = k2

\* another session has overwritten the first document of a run that is about
\* to save its second
C5_Interleaved ==
    \E r \in RunIds :
        /\ runs[r].pc = "save" /\ runs[r].i = 2
        /\ runs[r].hashes[1] \in DOMAIN vault
        /\ runs[r].hashes[2] \in DOMAIN vault
        /\ vault[runs[r].hashes[1]].domain = <<"remote">>
        /\ vault[runs[r].hashes[2]].domain = <<"remote">>

\* the question text of a staged entry: what stands between "Question: " and
\* the line of the correct answer
questionTextOf(entry) ==
    LET ends == {i \in 1..(Len(entry) - 1) : entry[i] = NL /\ entry[i + 1] = CAM}
        end == CHOOSE i \in ends : \A j \in ends : i <= j
    IN  SubSeq(entry, 3, end - 1)

normalized(text) == toLowerCase(trim(text))

\* the scans that have hashed their entries
Hashed == {r \in RunIds : runs[r].pc = "check"}

\* C6 (SpecHash): two entries hashed by a scan have the same hash exactly when
\* their question texts are equal after trimming and lower-casing.
C6_HashIdentifiesQuestion ==
    \A r \in Hashed : \A i, j \in 1..Len(runs[r].questions) :
        (normalized(questionTextOf(runs[r].questions[i]))
            = normalized(questionTextOf(runs[r].questions[j])))
        <=> (runs[r].hashes[i] = runs[r].hashes[j])

\* a scan holds two entries with one normalized question text and two hashes
C6_SameQuestionTwoHashes ==
    \E r \in Hashed : \E i, j \in 1..Len(runs[r].questions) :
        /\ normalized(questionTextOf(runs[r].questions[i]))
             = normalized(questionTextOf(runs[r].questions[j]))
        /\ runs[r].hashes[i] # runs[r].hashes[j]

\* the documents a step creates or changes
Written == {k \in DOMAIN vault' : k \notin DOMAIN vault \/ vault'[k] # vault[k]}

\* C7 (Spec): a step that writes the vault is the save step of a run that holds
\* the extraction the AI returned and the hash written is one the run's scan
\* called checkDuplicate for.
C7_CheckedBeforeWrite ==
    [][vault' # vault =>
          \E r \in RunIds :
              /\ runs[r].pc = "save" /\ runs'[r] # runs[r]
              /\ Len(runs[r].extraction) = 1
              /\ runs[r].hashes[runs[r].i] \in runs[r].checked
              /\ Written = {runs[r].hashes[runs[r].i]}]_vars

\* a run whose scan looked its hashes up has written its first document and
\* awaits the save of the second
C7_WrittenAfterPrompt ==
    /\ lastOp = "saved"
    /\ DOMAIN vault # {}
    /\ \E r \in RunIds : runs[r].pc = "save" /\ runs[r].i = 2 /\ runs[r].checked # {}
    /\ status = "LOADING"

\* the scan of run r gets its answers in this step
ScanStep(r) == runs[r].pc = "check" /\ runs'[r].pc # "check"

\* the positions of the scanned batch whose hash is in the vault
Existing(r) == {k \in 1..Len(runs[r].hashes) : runs[r].hashes[k] \in DOMAIN vault}

\* the scan of r ends at the prompt with the positions D
Prompted(r, D) ==
    /\ Len(pendingBatch') = 1
    /\ pendingBatch'[1].questions = runs[r].questions
    /\ pendingBatch'[1].hashes = runs[r].hashes
    /\ Range(pendingBatch'[1].duplicateIndices) = D
    /\ Len(pendingBatch'[1].duplicateIndices) = Cardinality(D)
    /\ status' = "IDLE"
    /\ runs'[r].pc = "free"
    /\ \A o \in RunIds : runs'[o].pc = "ai" => runs[o].pc = "ai"
    /\ vault' = vault

\* the scan of r goes on to the insight request
Started(r) ==
    /\ runs'[r].pc = "ai"
    /\ runs'[r].questions = runs[r].questions
    /\ pendingBatch' = <<>>
    /\ status' = "LOADING"

\* a run sends its insight request in this step
RequestSent(r) == runs'[r].pc = "ai" /\ runs[r].pc # "ai"

\* C8 as stated (Spec): a scan that finds a hash of its batch in the vault ends
\* at the prompt with exactly the existing positions, status IDLE, no request
\* and no write; a scan that finds none starts processing; a request is sent
\* only by such a scan or by Skip Duplicates / Process All Anyway.
C8_BranchOnExisting ==
    [][\A r \in RunIds :
          /\ ScanStep(r) =>
                IF Existing(r) # {} THEN Prompted(r, Existing(r)) ELSE Started(r)
          /\ RequestSent(r) =>
                \/ lastOp' \in {"skip", "processAll"}
                \/ ScanStep(r) /\ Existing(r) = {}]_vars

\* C8 (Spec): a scan ends at the prompt exactly when a lookup reports its hash
\* present: the prompt lists existing positions only, and all of them when
\* every lookup was answered; a scan whose lookups report nothing starts
\* processing, and then no hash exists if every lookup was answered; a request
\* is sent only by such a scan or by Skip Duplicates / Process All Anyway.
C8_BranchOnReported ==
    [][\A r \in RunIds :
          /\ ScanStep(r) =>
                /\ lastOp' \in {"prompt", "promptPartial", "scanned", "scannedPartial"}
                /\ lastOp' = "prompt" => Existing(r) # {} /\ Prompted(r, Existing(r))
                /\ lastOp' = "promptPartial" =>
                      \E D \in SUBSET Existing(r) : D # {} /\ Prompted(r, D)
                /\ lastOp' = "scanned" => Existing(r) = {} /\ Started(r)
                /\ lastOp' = "scannedPartial" => Started(r)
          /\ RequestSent(r) =>
                \/ lastOp' \in {"skip", "processAll"}
                \/ ScanStep(r) /\ lastOp' \in {"scanned", "scannedPartial"}]_vars

\* the prompt lists some of the entries of the batch and not the others
C8_PromptForSome ==
    /\ lastOp = "prompt"
    /\ Len(pendingBatch) = 1
    /\ Len(pendingBatch[1].duplicateIndices) > 0
    /\ Len(pendingBatch[1].duplicateIndices) < Len(pendingBatch[1].hashes)
    /\ status = "IDLE"

\* a lookup failed and the request went out for a batch with a stored hash
C8_MissedDuplicate ==
    /\ lastOp = "scannedPartial"
    /\ dbConfigured
    /\ \E r \in Requesting : \E k \in 1..Len(runs[r].hashes) : runs[r].hashes[k] \in DOMAIN vault

\* run r ends with success in this step and none of its writes was lost
SucceedsWritten(r) ==
    /\ runs[r].pc \in {"ai", "save"} /\ runs'[r].pc = "free"
    /\ status' = "SUCCESS"
    /\ dbConfigured
    /\ ~runs[r].lost /\ lastOp' # "saveFailed"

\* C9 (Spec): when a run ends with success with the store configured and no
\* write lost, the vault holds for every question of the batch a document under
\* its hash with the domain of the result and the rule of the question's block.
C9_CreatedOnSuccess ==
    [][\A r \in RunIds :
          SucceedsWritten(r) =>
              \A k \in 1..Len(runs[r].questions) :
                  /\ runs[r].hashes[k] \in DOMAIN vault'
                  /\ vault'[runs[r].hashes[k]].domain = result'[1].domain
                  /\ k \in DOMAIN result'[1].blocks
                  /\ vault'[runs[r].hashes[k]].foundationalRule = result'[1].blocks[k]]_vars

\* a batch of three ended with success on two blocks: the third question has
\* no document
C9_SuccessWithoutItem ==
    /\ status = "SUCCESS" /\ lastOp = "saved"
    /\ Len(result) = 1 /\ Len(result[1].blocks) = 2
    /\ inputText = ThreeStaged
    /\ getQuestionHash(Entry1) \in DOMAIN vault
    /\ getQuestionHash(Entry4) \notin DOMAIN vault

\* executeProcessing is called in this step with a batch, with isApiKeySet
\* true in its closure and no key for processInsights to read
KeyLostStep ==
    /\ getApiKey = <<>>
    /\ \/ /\ lastOp' \in {"scanned", "scannedPartial"}
          /\ \E r \in RunIds : ScanStep(r) /\ runs[r].keySeen
       \/ lastOp' = "processAll" /\ isApiKeySet
       \/ /\ lastOp' = "skip" /\ isApiKeySet
          /\ Len(pendingBatch[1].duplicateIndices) < Len(pendingBatch[1].questions)

\* C10 (SpecKeys): a step in which the insight request of a run fails (the
\* request rejects, the response is no JSON, processInsights finds no key)
\* sets status ERROR and an error message, writes nothing to the vault, leaves
\* the result as it was and leaves no run of that batch behind.
C10_FailureReported ==
    [][(lastOp' = "aiFail" \/ KeyLostStep) =>
          /\ status' = "ERROR"
          /\ error' # "null"
          /\ vault' = vault
          /\ result' = result
          /\ \A r \in RunIds : runs'[r] = runs[r] \/ runs'[r].pc = "free"]_vars

\* a request failed while the result of an earlier run is on screen
C10_FailedBesideResult ==
    /\ lastOp = "aiFail"
    /\ status = "ERROR"
    /\ Len(result) = 1
    /\ error # "null"

\* the step in which run r, whose insight request succeeded, ends
FinishStep(r) ==
    /\ runs[r].pc \in {"ai", "save"}
    /\ runs'[r].pc = "free"
    /\ lastOp' \in {"aiReturn", "saved", "saveFailed"}

\* a saveToVault of run r wrote nothing: before this step, or in it
WriteLost(r) == getDbThrows \/ runs[r].lost \/ lastOp' = "saveFailed"

\* the positions the prompt raised by this step flags
FlaggedNext ==
    IF lastOp' \in {"prompt", "promptPartial"} THEN Range(pendingBatch'[1].duplicateIndices)
    ELSE {}

VaultSyncFailed == "Vault sync failed. Check Firebase config in Integration center."

\* C12 (SpecLog): when a run ends one of whose vault writes failed (store not
\* configured, or setDoc rejecting), the 'Vault sync failed' warning has been
\* logged.
C12_LostWriteLogged ==
    [][\A r \in RunIds : FinishStep(r) /\ WriteLost(r) => VaultSyncFailed \in console']_vars

\* a run ended in SUCCESS after setDoc rejected on a configured store, and
\* nothing has been logged
C12_LostWithoutLog ==
    /\ lastOp = "saveFailed"
    /\ ~getDbThrows
    /\ status = "SUCCESS"
    /\ \A r \in RunIds : runs[r].pc = "free"
    /\ console = {}

\* executeProcessing is called in this step with a batch and with isApiKeySet
\* false in its closure
OfflineCall ==
    \/ /\ lastOp' \in {"scanned", "scannedPartial"}
       /\ \E r \in RunIds : ScanStep(r) /\ ~runs[r].keySeen
    \/ lastOp' = "processAll" /\ ~isApiKeySet
    \/ /\ lastOp' = "skip" /\ ~isApiKeySet
       /\ Len(pendingBatch[1].duplicateIndices) < Len(pendingBatch[1].questions)

\* handleExtract is called in this step
ExtractCall == lastOp' \in {"extractDenied", "extractNoKey", "extract"}

\* C13 (SpecCreds): executeProcessing called with a non-empty batch while the
\* isApiKeySet it reads is false sends no insight request, writes nothing to
\* the vault and ends with status ERROR and the 'offline' configuration error;
\* handleExtract called while isApiKeySet is false sends no extraction request
\* and changes no state of the scraper or of the App (and sends no request
\* either while the flag is still set but the stored key is gone).
C13_NoKeyNoRequest ==
    [][/\ OfflineCall =>
             /\ status' = "ERROR"
             /\ error' = "AI Logic Engine is offline. Please configure your API key."
             /\ vault' = vault
             /\ result' = result
             /\ \A r \in RunIds : runs'[r] = runs[r] \/ runs'[r].pc = "free"
       /\ ExtractCall /\ ~isApiKeySet =>
             /\ scraper' = scraper
             /\ UNCHANGED <<inputText, storedInput, appVars, keyVars, viewVars, envVars, updates, drawer, console,
                            vault, runs, lastAlert>>
       /\ ExtractCall /\ getApiKey = <<>> => scraper'.pending = scraper.pending]_vars

\* without a key, a processing run was refused with the configuration error
\* and handleExtract has then been called on a non-blank input
C13_RefusedTwice ==
    /\ lastOp = "extractDenied"
    /\ ~isApiKeySet
    /\ trim(scraper.input) # <<>>
    /\ status = "ERROR"
    /\ error = "AI Logic Engine is offline. Please configure your API key."
    /\ scraper.pending = 0 /\ ~scraper.loading
    /\ \A r \in RunIds : runs[r].pc = "free"

\* the collection after a write of data under id h that wins over what was there
Overwritten(h, data) ==
    /\ DOMAIN vault' = DOMAIN vault \cup {h}
    /\ vault'[h] = data
    /\ \A k \in DOMAIN vault \ {h} : vault'[k] = vault[k]

\* C14 (SpecShared): whatever other runs are in flight or have completed, a
\* run that completes sets the status, and the result when it succeeded, to its
\* own, so that once all runs have completed the result and status are those
\* of the run that completed last; a save that reaches the store, of a run or
\* of another session, leaves under its hash the document with its own fields,
\* whatever was stored there, and leaves the other documents alone.
C14_LastWriteWins ==
    [][/\ \A r \in RunIds : FinishStep(r) =>
             /\ status' = "SUCCESS"
             /\ Len(result') = 1
             /\ runs[r].pc = "save" => result' = runs[r].extraction
       /\ lastOp' = "aiFail" => status' = "ERROR" /\ error' # "null" /\ result' = result
       /\ \A r \in RunIds : runs[r].pc = "save" /\ runs'[r] # runs[r] /\ lastOp' = "saved" =>
             LET x == runs[r].extraction[1]
                 h == runs[r].hashes[runs[r].i]
             IN  Overwritten(h, VaultDoc(h, x.domain, x.blocks[runs[r].i], runs[r].stamp))
       /\ lastOp' = "remoteSave" =>
             \E text \in {Entry1, Entry4} :
                 Overwritten(getQuestionHash(text),
                             VaultDoc(getQuestionHash(text), <<"remote">>, RuleOf(2), now))]_vars

\* two runs overlapped and saved the same hash: run r wrote its first document
\* at time 0 and awaits its second save, the other run wrote the same document
\* afterwards and has completed; the document and the status are the other's
C14_SecondRunWon ==
    \E r \in RunIds :
        /\ runs[r].pc = "save" /\ runs[r].i = 2 /\ ~runs[r].lost /\ runs[r].stamp = 0
        /\ \A o \in RunIds \ {r} : runs[o].pc = "free"
        /\ lastOp = "saved"
        /\ status = "SUCCESS" /\ Len(result) = 1
        /\ runs[r].hashes[1] \in DOMAIN vault
        /\ vault[runs[r].hashes[1]].domain = <<"A", "Z">>
        /\ vault[runs[r].hashes[1]].masteredAt = 1

\* C15 (SpecReset): handleReset leaves the runs in flight and the vault as
\* they are; after it (the staging text is empty) a run goes on as it would
\* have: when its insight request succeeds it calls saveToVault for its first
\* block (if the response has one), each save that reaches the store writes its document, and the run
\* ends by setting its result and status SUCCESS.
C15_NoCancellation ==
    [][/\ lastOp' = "reset" => runs' = runs /\ vault' = vault
       /\ \A r \in RunIds : inputText = <<>> /\ runs'[r] # runs[r] =>
             /\ lastOp' = "aiReturn" =>
                   IF runs'[r].pc = "save"
                   THEN runs'[r].i = 1 /\ runs'[r].hashes = runs[r].hashes
                   ELSE Len(result') = 1 /\ saveCount(result'[1], runs[r].hashes) = 0
             /\ lastOp' = "saved" =>
                   LET x == runs[r].extraction[1]
                       h == runs[r].hashes[runs[r].i]
                   IN  /\ h \in DOMAIN vault'
                       /\ vault'[h] = VaultDoc(h, x.domain, x.blocks[runs[r].i], runs[r].stamp)
             /\ FinishStep(r) =>
                   /\ status' = "SUCCESS"
                   /\ Len(result') = 1
                   /\ runs[r].pc = "save" => result' = runs[r].extraction]_vars

\* the batch was reset while its run was in flight; the run has since written
\* a document for each of its questions and shows its result with SUCCESS
C15_CompletedAfterReset ==
    /\ inputText = <<>>
    /\ lastOp = "saved"
    /\ status = "SUCCESS"
    /\ Len(result) = 1
    /\ Cardinality(DOMAIN vault) = 2
    /\ \A r \in RunIds : runs[r].pc = "free"

\* C16 (SpecVault): the load of VaultView ends the loading state whether or
\* not the fetch worked; the items it sets are the empty list when the store
\* is not configured or the query fails, and otherwise every document of the
\* collection, each once, from the latest masteredAt to the earliest; the items
\* displayed are always in that fetched order.
C16_FetchedLatestFirst ==
    [][/\ \A rejected \in BOOLEAN : VaultLoaded(rejected) =>
             /\ ~vvLoading'
             /\ IF getDbThrows \/ rejected THEN vvItems' = <<>>
                ELSE /\ Range(vvItems') = {vault[k] : k \in DOMAIN vault}
                     /\ Len(vvItems') = Cardinality(DOMAIN vault)
                     /\ \A a, b \in 1..Len(vvItems') :
                           a < b => vvItems'[a].masteredAt >= vvItems'[b].masteredAt
       /\ view' = "vault" /\ ~vvLoading' =>
             \A a, b \in 1..Len(filteredItems') :
                 a < b => filteredItems'[a].masteredAt >= filteredItems'[b].masteredAt]_vars

\* the vault view has loaded two documents and shows the later one first
C16_TwoListed ==
    /\ view = "vault" /\ ~vvLoading
    /\ lastOp = "vaultLoaded"
    /\ Len(vvItems) = 2
    /\ vvItems[1].masteredAt > vvItems[2].masteredAt
    /\ filteredItems = vvItems

\* the first instant of calendar day `day` on the local clock
StartOfDay(day) == day * DayLen - tz

\* the last instant (23:59:59.999) of calendar day `day` on the local clock
EndOfDay(day) == StartOfDay(day) + DayLen - 1

\* the item is to be displayed: the search text is a case-insensitive
\* substring of its rule or domain, and it is inside the From / To days
ToBeDisplayed(item) ==
    /\ \/ includes(toLowerCase(item.foundationalRule), toLowerCase(search))
       \/ includes(toLowerCase(item.domain), toLowerCase(search))
    /\ startDate # <<>> => item.masteredAt >= StartOfDay(startDate[1])
    /\ endDate # <<>> => item.masteredAt <= EndOfDay(endDate[1])

\* C17 (SpecVault): the vault view displays exactly the fetched items whose
\* rule or domain contains the search text, case-insensitively, and whose
\* masteredAt is neither before the start of the From day nor after the end
\* of the To day, when these are set; in the fetched order; and so all of them
\* when no filter is set.
C17_FilteredByDay ==
    (view = "vault" /\ ~vvLoading) =>
        /\ filteredItems =
              SelectIdx(vvItems, {k \in 1..Len(vvItems) : ToBeDisplayed(vvItems[k])}, 1)
        /\ (search = <<>> /\ startDate = <<>> /\ endDate = <<>>) => filteredItems = vvItems

\* west of UTC, with From set to day 1, the view displays an item mastered on
\* day 0, on the local and on the UTC calendar
C17_EarlierDayDisplayed ==
    /\ view = "vault" /\ ~vvLoading
    /\ tz = -1
    /\ startDate = <<1>> /\ endDate = <<>> /\ search = <<>>
    /\ \E k \in 1..Len(filteredItems) :
          /\ filteredItems[k].masteredAt < StartOfDay(1)
          /\ filteredItems[k].masteredAt < DateParse(1)

\* C18 (SpecSettings): a save of the drawer with a key text that is not blank
\* after trimming stores the trimmed text, which getApiKey then returns
\* whatever the build's key is; a save with a blank key text leaves no stored
\* key, and getApiKey returns the build's key, or the empty string; the config
\* that getFirebaseConfig reads after the save is the one the drawer held; and
\* checkApiKey is true exactly when getApiKey is not empty.
C18_SavedRoundTrip ==
    [][/\ lastOp' = "settingsSaved" =>
             LET K == drawer.geminiApiKey
             IN  /\ trim(K) # <<>> =>
                       /\ localKey' = trim(K)
                       /\ getApiKey' = trim(K)
                 /\ trim(K) = <<>> =>
                       /\ localKey' = <<>>
                       /\ getApiKey' = envKey
                 /\ getFirebaseConfig' = drawer.config
       /\ checkApiKey <=> getApiKey # <<>>
       /\ checkApiKey' <=> getApiKey' # <<>>]_vars

\* in a build with a key of its own, a key typed with blanks around it and a
\* projectId have been saved: the stored key is the trimmed one and the store
\* is configured
C18_TrimmedKeySaved ==
    /\ lastOp = "settingsSaved"
    /\ envKey # <<>>
    /\ drawer.geminiApiKey = StoredKey
    /\ getApiKey = StoredKey
    /\ getApiKey # envKey
    /\ drawer.config.projectId = <<"p">>
    /\ drawer.config.appId = <<"p">>
    /\ getFirebaseConfig = drawer.config
    /\ isApiKeySet

\* C19 (LiveScraper): an extraction that handleExtract starts clears the error
\* and the pushed marks and sets loading; one that fails shows an error string
\* and leaves the result list as it was; when it settles, either way, loading
\* is false; and loading, once true, always becomes false again.
C19_LoadingEnds ==
    /\ [][/\ lastOp' = "extract" =>
                /\ scraper'.loading
                /\ scraper'.error = "null"
                /\ scraper'.pushedIds = {}
          /\ lastOp' = "extractNoKey" => scraper'.pushedIds = {}
          /\ lastOp' \in {"extractFailed", "extractNoKey"} =>
                /\ scraper'.error # "null"
                /\ scraper'.results = scraper.results
                /\ ~scraper'.loading
          /\ lastOp' = "extracted" => ~scraper'.loading]_vars
    /\ (scraper.loading ~> ~scraper.loading)

\* an extraction failed after an earlier one had listed a question and the
\* question had been pushed: the error is shown, the list is kept, the pushed
\* mark is gone
C19_FailedKeepingList ==
    /\ lastOp = "extractFailed"
    /\ ~scraper.loading /\ scraper.pending = 0
    /\ scraper.error = "Extraction failed."
    /\ Len(scraper.results) = 1
    /\ scraper.pushedIds = {}
    /\ inputText # <<>>

\* the positions of the pending batch that the prompt does not flag
Unflagged == {k \in 1..Len(pendingBatch[1].questions) :
                 k \notin Range(pendingBatch[1].duplicateIndices)}

\* the hashes of the pending batch that the prompt flags
FlaggedHashes == {pendingBatch[1].hashes[k] : k \in Range(pendingBatch[1].duplicateIndices)}

\* the run that this step starts has the questions and hashes given
StartsWith(questions, hashes) ==
    \E r \in RunIds :
        /\ runs[r].pc = "free" /\ runs'[r].pc = "ai"
        /\ runs'[r].questions = questions
        /\ runs'[r].hashes = hashes
        /\ \A o \in RunIds \ {r} : runs'[o] = runs[o]

\* Skip Duplicates and Process All Anyway hand executeProcessing these batches
SkipAndAllStart ==
    /\ lastOp' = "skip" /\ Unflagged # {} =>
          /\ StartsWith(SelectIdx(pendingBatch[1].questions, Unflagged, 1),
                        SelectIdx(pendingBatch[1].hashes, Unflagged, 1))
          /\ \A r \in RunIds : \A k \in 1..Len(runs'[r].questions) :
                runs'[r].pc = "ai" /\ runs[r].pc = "free" =>
                    runs'[r].hashes[k] = getQuestionHash(runs'[r].questions[k])
    /\ lastOp' = "skip" /\ Unflagged = {} => runs' = runs /\ error' = "No new questions to process."
    /\ lastOp' = "processAll" => StartsWith(pendingBatch[1].questions, pendingBatch[1].hashes)

\* the hashes of the run that this step starts
StartedHashes ==
    UNION {Range(runs'[r].hashes) : r \in {o \in RunIds : runs[o].pc = "free" /\ runs'[o].pc = "ai"}}

\* C20 as stated (Spec): Skip Duplicates starts a run on exactly the unflagged
\* questions of the pending batch, in their order, each with its own hash, and
\* none of the run's hashes was flagged; Process All Anyway starts a run on the
\* whole pending batch and its hashes.
C20_SkipWritesNoFlagged ==
    [][/\ SkipAndAllStart
       /\ lastOp' = "skip" => StartedHashes \cap FlaggedHashes = {}]_vars

\* C20 (Spec): Skip Duplicates starts a run on exactly the unflagged questions
\* of the pending batch, in their order, each with its own hash; none of the
\* run's hashes was flagged when every lookup of the scan was answered by the
\* store; Process All Anyway starts a run on the whole pending batch and its
\* hashes.
C20_SkipKeepsUnflagged ==
    [][/\ SkipAndAllStart
       /\ lastOp' = "skip" /\ pendingBatch[1].answered =>
             StartedHashes \cap FlaggedHashes = {}]_vars

\* of three staged questions the first two were flagged; Skip Duplicates has
\* started a run on the third alone
C20_ThirdAlone ==
    /\ lastOp = "skip"
    /\ status = "LOADING"
    /\ pendingBatch = <<>>
    /\ inputText = ThreeStaged
    /\ \E r \in RunIds :
          /\ runs[r].pc = "ai"
          /\ runs[r].questions = <<Entry4>>
          /\ runs[r].hashes = <<getQuestionHash(Entry4)>>
          /\ getQuestionHash(Entry1) \in DOMAIN vault
          /\ getQuestionHash(Entry4) \notin DOMAIN vault

----------------------------------------------------------------------------
(* C21: the write attempts of a processing run *)

\* the index of the write run r awaits, 0 before the loop
Attempted(r) == IF runs[r].pc = "save" THEN runs[r].i ELSE 0

\* the index of the first null block of x, past the end when none is null
FirstNull(x) ==
    IF \E j \in 1..blockCount(x) : x.blocks[j] = NullBlock
    THEN CHOOSE j \in 1..blockCount(x) :
            /\ x.blocks[j] = NullBlock
            /\ \A k \in 1..(j - 1) : x.blocks[k] # NullBlock
    ELSE blockCount(x) + 1

\* a step of run r's save loop: the insight request or a write settles
LoopStep(r) ==
    /\ runs[r].pc \in {"ai", "save"}
    /\ lastOp' \in {"aiReturn", "saved", "saveFailed"}
    /\ runs'[r] # runs[r]

----------------------------------------------------------------------------
(* C22: what an accepted push appends *)

\* the staging text after q has been appended to text
Appended(text, q) ==
    IF text = <<>> THEN formatted(q) ELSE text \o BlankLine \o formatted(q)

\* C22 as stated (SpecStaging): a push accepted at a staged count below six
\* raises the staged count by exactly one and appends the entry of one
\* question, after a blank line unless the staging text was empty, to the
\* unchanged staging text.
C22_PushAddsOne ==
    [][lastOp' = "push" /\ CountQuestionSp(inputText) < StagingLimit =>
          /\ CountQuestionSp(inputText') = CountQuestionSp(inputText) + 1
          /\ \E q \in ExtractedQuestions : inputText' = Appended(inputText, q)]_vars

\* one push onto the empty staging text has left a staged count of two
C22_OnePushCountsTwo ==
    /\ lastOp = "push"
    /\ inputText = formatted(Q("3", <<QM, SP, "a">>, <<"b">>, <<"a">>))
    /\ stagedCount = 2

----------------------------------------------------------------------------
(* C23: Skip Duplicates on a batch of duplicates only *)

\* every question of the pending batch is flagged as a duplicate
AllFlagged ==
    /\ pendingBatch # <<>>
    /\ Range(pendingBatch[1].duplicateIndices) = 1..Len(pendingBatch[1].questions)

\* C23 (SpecShared): Skip Duplicates on a pending batch all of whose questions
\* are flagged starts no insight request and writes nothing to the vault; it
\* sets the error 'No new questions to process.', the status IDLE and clears
\* the pending batch.
C23_NothingNewToProcess ==
    [][AllFlagged /\ lastOp' = "skip" =>
          /\ runs' = runs
          /\ vault' = vault
          /\ result' = result
          /\ error' = "No new questions to process."
          /\ status' = "IDLE"
          /\ pendingBatch' = <<>>]_vars

\* Skip Duplicates has just dropped a batch of duplicates: no run is in
\* flight, the documents that made them duplicates are still the vault
C23_AllSkipped ==
    /\ lastOp = "skip"
    /\ error = "No new questions to process."
    /\ status = "IDLE"
    /\ pendingBatch = <<>>
    /\ vault # <<>>
    /\ \A r \in RunIds : runs[r].pc = "free"

----------------------------------------------------------------------------
(* C24: insight requests in flight *)

\* C24 as stated: at most one insight request is in flight at any time.
C24_OneRequestInFlight == Cardinality(Requesting) <= 1

\* two insight requests are in flight, the second one started after Clear All
\* had set the status of the first one's run back to IDLE
C24_TwoInFlight ==
    /\ Cardinality(Requesting) = 2
    /\ status = "LOADING"
    /\ PanelsShown

----------------------------------------------------------------------------
(* C25: the pending batch and the staging text *)

\* C25 as stated: whenever a pending batch exists, its questions are the
\* questions a scan would take from the staging text as it is now.
C25_PendingIsStaged ==
    pendingBatch # <<>> => pendingBatch[1].questions = rawQuestionsOf(inputText)

\* Process All Anyway has sent a batch that the staging text, edited while
\* the prompt was shown, no longer holds
C25_StaleBatchProcessed ==
    /\ lastOp = "processAll"
    /\ \E r \in RunIds :
          /\ runs[r].pc = "ai"
          /\ runs[r].questions # rawQuestionsOf(inputText)
          /\ Cardinality({o \in RunIds : runs[o].pc # "free"}) = 1

----------------------------------------------------------------------------
(* C26: the result handed to the output view *)

\* C26 as stated: a result that is set has a domain and a list of blocks.
C26_ResultHasBlocks ==
    result # <<>> => result[1].hasBlocks /\ result[1].domain # <<"undefined">>

\* the run of an empty response body has ended in SUCCESS: the result on
\* display has neither domain nor blocks
C26_EmptyResultShown ==
    /\ lastOp = "aiReturn"
    /\ status = "SUCCESS"
    /\ view = "generator"
    /\ result = <<Extraction(<<"undefined">>, FALSE, 0)>>

----------------------------------------------------------------------------
(* C27: the staged count and the batch of a scan *)

\* the staging text after the questions qs[1..n] have been pushed in turn
RECURSIVE StagedFrom(_, _)
StagedFrom(qs, n) == IF n = 0 THEN <<>> ELSE Appended(StagedFrom(qs, n - 1), qs[n])

\* the lists of questions pushed into an empty staging area
PushSeqs == UNION { [1..n -> Range(PushList)] : n \in 1..(MaxStaged + 1) }

\* the batch of the scan this step starts: empty when the scan throws
ScannedNext ==
    IF runs' = runs THEN <<>>
    ELSE runs'[CHOOSE r \in RunIds : runs'[r] # runs[r]].questions

\* C27 as stated (SpecPush): the batch of a scan holds as many questions as
\* the staged count, six at most, and after pushes into an empty staging area
\* it holds the entry of each pushed question, whole, as one item.
C27_CountIsBatchSize ==
    [][lastOp' = "analyze" =>
          /\ Len(ScannedNext) = Min(stagedCount, StagingLimit)
          /\ \A qs \in PushSeqs :
                inputText = StagedFrom(qs, Len(qs)) =>
                   ScannedNext = [k \in 1..Len(qs) |-> formatted(qs[k])]]_vars

\* a scan has taken one question from a staging text whose staged count is two
C27_TwoCountedOneScanned ==
    /\ lastOp = "analyze"
    /\ stagedCount = 2
    /\ \E r \in RunIds : runs[r].pc = "check" /\ Len(runs[r].questions) = 1

----------------------------------------------------------------------------
(* C28: the scraper's pushed marks *)

\* the step pushes q: its entry is appended to the staging text
Pushes(q) == lastOp' = "push" /\ inputText' = Appended(inputText, q)

\* every mark stands for a listed result whose entry is in the staging text
MarkedAreStaged ==
    \A id \in scraper.pushedIds :
       \E q \in Range(PushList) : idOf(q) = id /\ includes(inputText, formatted(q))

\* a result is pushed only while it is not marked, and marked only by the
\* step that appends it
PushedOnceAndMarked ==
    /\ \A q \in Range(PushList) : Pushes(q) => idOf(q) \notin scraper.pushedIds
    /\ \A id \in scraper'.pushedIds \ scraper.pushedIds :
          \E q \in Range(scraper.results) : idOf(q) = id /\ Pushes(q)
    /\ scraper'.pushedIds \subseteq scraper.pushedIds \/ lastOp' = "push"

\* C28 as stated (SpecMarks): between two extractions a result is pushed at
\* most once, it is marked as pushed only by the step that appends its entry
\* to the staging text, and the entry of every marked result is in the
\* staging text.
C28_MarkedIsStaged == [][PushedOnceAndMarked /\ MarkedAreStaged']_vars

\* Clear All has emptied the staging text and the pushed result is still
\* marked in the scraper's list
C28_MarkedAfterClear ==
    /\ lastOp = "reset"
    /\ inputText = <<>>
    /\ Len(scraper.results) > 0
    /\ scraper.pushedIds # {}

----------------------------------------------------------------------------
(* C30: the staging text in localStorage *)

\* C30 as stated (SpecPersist): after every push, edit and reset the stored
\* staging text reads back as the staging text in memory; a reset leaves no
\* stored entry; a reload restores the staging text and starts without
\* result, pending batch or status.
C30_StoredIsStaged ==
    [][/\ restored(storedInput') = inputText'
       /\ lastOp' = "reset" => storedInput' = <<>>
       /\ lastOp' = "reload" =>
             /\ inputText' = inputText
             /\ result' = <<>>
             /\ pendingBatch' = <<>>
             /\ status' = "IDLE"]_vars

\* Clear All on a staged question has left a stored entry, holding ''
C30_EmptyEntryAfterReset ==
    /\ lastOp = "reset"
    /\ inputText = <<>>
    /\ storedInput = <<<<>>>>

\* C30 (SpecPersist): after every push, edit and reset the stored staging text
\* reads back as the staging text in memory; after a reset the stored entry is
\* absent or holds the empty text, so that it reads back as the empty text; a
\* reload restores the staging text and starts without result, pending batch
\* or status.
C30_StoredReadsBack ==
    [][/\ restored(storedInput') = inputText'
       /\ lastOp' = "reset" => storedInput' \in {<<>>, <<<<>>>>} /\ inputText' = <<>>
       /\ lastOp' = "reload" =>
             /\ inputText' = inputText
             /\ inputText' = restored(storedInput)
             /\ result' = <<>>
             /\ pendingBatch' = <<>>
             /\ status' = "IDLE"]_vars

----------------------------------------------------------------------------
(* C29: the atomic push of the single-file App *)

\* C29 as stated (SpecMono): the staged count of the single-file App never
\* exceeds six, however many pushes one render applies, and a push that
\* arrives at a count of six or more leaves the staging text as it found it.
C29_AtomicCap ==
    [][/\ CountQuestionCI(inputText') <= StagingLimit
       /\ lastOp' = "render" =>
             \A k \in 1..Len(updates) :
                CountQuestionCI(applied(inputText, updates, k - 1)) >= StagingLimit =>
                   applied(inputText, updates, k) = applied(inputText, updates, k - 1)]_vars

\* a render has applied a push at a count of five: the count is seven
C29_SevenStaged ==
    /\ lastOp = "render"
    /\ currentStagedCount = StagingLimit + 1

====
